---- MODULE Spec2Model ----
(***************************************************************************)
(* Node classification and policy-group assembly of the override script    *)
(* (src/unnamed/part_000) and of its older variant src/convert.js.         *)
(*                                                                         *)
(* A JavaScript string is modelled as the tuple of its characters, each a  *)
(* one-character string; a non-ASCII character is written by its code      *)
(* point, "u9999" for U+9999.  So "HK-1" is <<"H","K","-","1">> and the    *)
(* suffix 节点 is <<"u8282","u70B9">>.  Regular expressions are modelled   *)
(* by what RegExp.prototype.test does on such tuples.                      *)
(* Static data that no group or rule depends on (icons, DNS, sniffer,      *)
(* geodata URLs, rule providers) is left out of the records.               *)
(***************************************************************************)
EXTENDS Integers, Sequences, FiniteSets, TLC

VARIABLES rawArgs, flags, baseRules, config, result, first

vars == <<rawArgs, flags, baseRules, config, result, first>>

\* ------------------------------------------------------------------ bounds

\* Longest node list passed to main.
MaxNodes == 2

\* Longest node list of the re-invocation specification.
MaxRerunNodes == 1

\* ------------------------------------------------------ strings and regexes

\* String.prototype.toUpperCase on one character (the /i flag canonicalizes
\* both sides with it); only ASCII letters occur with a case in the patterns.
ToUpperCase(c) ==
    CASE c = "a" -> "A" [] c = "b" -> "B" [] c = "c" -> "C" [] c = "d" -> "D"
      [] c = "e" -> "E" [] c = "f" -> "F" [] c = "g" -> "G" [] c = "h" -> "H"
      [] c = "i" -> "I" [] c = "j" -> "J" [] c = "k" -> "K" [] c = "l" -> "L"
      [] c = "m" -> "M" [] c = "n" -> "N" [] c = "o" -> "O" [] c = "p" -> "P"
      [] c = "q" -> "Q" [] c = "r" -> "R" [] c = "s" -> "S" [] c = "t" -> "T"
      [] c = "u" -> "U" [] c = "v" -> "V" [] c = "w" -> "W" [] c = "x" -> "X"
      [] c = "y" -> "Y" [] c = "z" -> "Z" [] OTHER -> c

\* String.prototype.toLowerCase on one character.
ToLowerCase(c) ==
    CASE c = "A" -> "a" [] c = "B" -> "b" [] c = "C" -> "c" [] c = "D" -> "d"
      [] c = "E" -> "e" [] c = "F" -> "f" [] c = "G" -> "g" [] c = "H" -> "h"
      [] c = "I" -> "i" [] c = "J" -> "j" [] c = "K" -> "k" [] c = "L" -> "l"
      [] c = "M" -> "m" [] c = "N" -> "n" [] c = "O" -> "o" [] c = "P" -> "p"
      [] c = "Q" -> "q" [] c = "R" -> "r" [] c = "S" -> "s" [] c = "T" -> "t"
      [] c = "U" -> "u" [] c = "V" -> "v" [] c = "W" -> "w" [] c = "X" -> "x"
      [] c = "Y" -> "y" [] c = "Z" -> "z" [] OTHER -> c

\* A literal of a pattern: one singleton character class per character.
Lit(s) == [i \in 1..Len(s) |-> {s[i]}]

\* A pattern source (a string such as "(?i)a|b"): whether it starts with the
\* inline flag (?i), and its alternatives in order, each a tuple of character
\* classes.
PatternSource(inlineI, alternatives) == [inlineI |-> inlineI, alts |-> alternatives]

\* An alternative with every character of its classes in upper case.
UpperAlternative(alt) == [j \in 1..Len(alt) |-> {ToUpperCase(c) : c \in alt[j]}]

\* new RegExp(pattern.replace(/^\(\?i\)/, ''), flagsI): the inline flag is
\* stripped; the regex ignores case iff the 'i' flag is given, and then both
\* the pattern and the input are canonicalized by toUpperCase.
RegExpOf(pattern, flagI) ==
    [ alts |-> IF flagI
               THEN [a \in 1..Len(pattern.alts) |-> UpperAlternative(pattern.alts[a])]
               ELSE pattern.alts,
      ignoreCase |-> flagI ]

\* One alternative matches s at position i.
MatchesAt(alt, s, i) == \A j \in 1..Len(alt) : s[i + j - 1] \in alt[j]

\* RegExp.prototype.test of a regex without the g and y flags: some
\* alternative matches somewhere in s; lastIndex is neither read nor written.
RegExpTest(regex, s) ==
    LET input == IF regex.ignoreCase THEN [i \in 1..Len(s) |-> ToUpperCase(s[i])] ELSE s
    IN  \E a \in 1..Len(regex.alts) :
            \E i \in 1..(Len(input) - Len(regex.alts[a]) + 1) :
                MatchesAt(regex.alts[a], input, i)

\* ------------------------------------------------------------ script tables

\* 节点
NODE_SUFFIX == <<"u8282","u70B9">>

\* Names of the functional groups.
PROXY_GROUPS ==
    [ SELECT   |-> <<"u9009","u62E9","u4EE3","u7406">>,
      MANUAL   |-> <<"u624B","u52A8","u9009","u62E9">>,
      FALLBACK |-> <<"u6545","u969C","u8F6C","u79FB">>,
      DIRECT   |-> <<"u76F4","u8FDE">>,
      LANDING  |-> <<"u843D","u5730","u8282","u70B9">>,
      LOW_COST |-> <<"u4F4E","u500D","u7387","u8282","u70B9">> ]

\* The country table, in declaration order: 香港, 澳门, 台湾, 新加坡, 日本, 韩国,
\* 美国, 加拿大, 英国, 澳大利亚, 德国, 法国, 俄罗斯, 泰国, 印度, 马来西亚.
\* A country without weight has no weight field.
countriesMeta ==
    << [ key |-> <<"u9999","u6E2F">>, weight |-> 10,
         pattern |-> PatternSource(FALSE, <<Lit(<<"u9999","u6E2F">>), Lit(<<"u6E2F">>), Lit(<<"H","K">>), Lit(<<"h","k">>), Lit(<<"H","o","n","g"," ","K","o","n","g">>), Lit(<<"H","o","n","g","K","o","n","g">>), Lit(<<"h","o","n","g","k","o","n","g">>), Lit(<<"u1F1ED","u1F1F0">>)>>) ],
       [ key |-> <<"u6FB3","u95E8">>,
         pattern |-> PatternSource(FALSE, <<Lit(<<"u6FB3","u95E8">>), Lit(<<"M","O">>), Lit(<<"M","a","c","a","u">>), Lit(<<"u1F1F2","u1F1F4">>)>>) ],
       [ key |-> <<"u53F0","u6E7E">>, weight |-> 20,
         pattern |-> PatternSource(FALSE, <<Lit(<<"u53F0">>), Lit(<<"u65B0","u5317">>), Lit(<<"u5F70","u5316">>), Lit(<<"T","W">>), Lit(<<"T","a","i","w","a","n">>), Lit(<<"u1F1F9","u1F1FC">>)>>) ],
       [ key |-> <<"u65B0","u52A0","u5761">>, weight |-> 30,
         pattern |-> PatternSource(FALSE, <<Lit(<<"u65B0","u52A0","u5761">>), Lit(<<"u5761">>), Lit(<<"u72EE","u57CE">>), Lit(<<"S","G">>), Lit(<<"S","i","n","g","a","p","o","r","e">>), Lit(<<"u1F1F8","u1F1EC">>)>>) ],
       [ key |-> <<"u65E5","u672C">>, weight |-> 40,
         pattern |-> PatternSource(FALSE, <<Lit(<<"u65E5","u672C">>), Lit(<<"u5DDD","u65E5">>), Lit(<<"u4E1C","u4EAC">>), Lit(<<"u5927","u962A">>), Lit(<<"u6CC9","u65E5">>), Lit(<<"u57FC","u7389">>), Lit(<<"u6CAA","u65E5">>), Lit(<<"u6DF1","u65E5">>), Lit(<<"J","P">>), Lit(<<"J","a","p","a","n">>), Lit(<<"u1F1EF","u1F1F5">>)>>) ],
       [ key |-> <<"u97E9","u56FD">>,
         pattern |-> PatternSource(FALSE, <<Lit(<<"K","R">>), Lit(<<"K","o","r","e","a">>), Lit(<<"K","O","R">>), Lit(<<"u9996","u5C14">>), Lit(<<"u97E9">>), Lit(<<"u97D3">>), Lit(<<"u1F1F0","u1F1F7">>)>>) ],
       [ key |-> <<"u7F8E","u56FD">>, weight |-> 50,
         pattern |-> PatternSource(FALSE, <<Lit(<<"u7F8E","u56FD">>), Lit(<<"u7F8E">>), Lit(<<"U","S">>), Lit(<<"U","n","i","t","e","d"," ","S","t","a","t","e","s">>), Lit(<<"u1F1FA","u1F1F8">>)>>) ],
       [ key |-> <<"u52A0","u62FF","u5927">>,
         pattern |-> PatternSource(FALSE, <<Lit(<<"u52A0","u62FF","u5927">>), Lit(<<"C","a","n","a","d","a">>), Lit(<<"C","A">>), Lit(<<"u1F1E8","u1F1E6">>)>>) ],
       [ key |-> <<"u82F1","u56FD">>, weight |-> 60,
         pattern |-> PatternSource(FALSE, <<Lit(<<"u82F1","u56FD">>), Lit(<<"U","n","i","t","e","d"," ","K","i","n","g","d","o","m">>), Lit(<<"U","K">>), Lit(<<"u4F26","u6566">>), Lit(<<"L","o","n","d","o","n">>), Lit(<<"u1F1EC","u1F1E7">>)>>) ],
       [ key |-> <<"u6FB3","u5927","u5229","u4E9A">>,
         pattern |-> PatternSource(FALSE, <<Lit(<<"u6FB3","u6D32">>), Lit(<<"u6FB3","u5927","u5229","u4E9A">>), Lit(<<"A","U">>), Lit(<<"A","u","s","t","r","a","l","i","a">>), Lit(<<"u1F1E6","u1F1FA">>)>>) ],
       [ key |-> <<"u5FB7","u56FD">>, weight |-> 70,
         pattern |-> PatternSource(FALSE, <<Lit(<<"u5FB7","u56FD">>), Lit(<<"u5FB7">>), Lit(<<"D","E">>), Lit(<<"G","e","r","m","a","n","y">>), Lit(<<"u1F1E9","u1F1EA">>)>>) ],
       [ key |-> <<"u6CD5","u56FD">>, weight |-> 80,
         pattern |-> PatternSource(FALSE, <<Lit(<<"u6CD5","u56FD">>), Lit(<<"u6CD5">>), Lit(<<"F","R">>), Lit(<<"F","r","a","n","c","e">>), Lit(<<"u1F1EB","u1F1F7">>)>>) ],
       [ key |-> <<"u4FC4","u7F57","u65AF">>,
         pattern |-> PatternSource(FALSE, <<Lit(<<"u4FC4","u7F57","u65AF">>), Lit(<<"u4FC4">>), Lit(<<"R","U">>), Lit(<<"R","u","s","s","i","a">>), Lit(<<"u1F1F7","u1F1FA">>)>>) ],
       [ key |-> <<"u6CF0","u56FD">>,
         pattern |-> PatternSource(FALSE, <<Lit(<<"u6CF0","u56FD">>), Lit(<<"u6CF0">>), Lit(<<"T","H">>), Lit(<<"T","h","a","i","l","a","n","d">>), Lit(<<"u1F1F9","u1F1ED">>)>>) ],
       [ key |-> <<"u5370","u5EA6">>,
         pattern |-> PatternSource(FALSE, <<Lit(<<"u5370","u5EA6">>), Lit(<<"I","N">>), Lit(<<"I","n","d","i","a">>), Lit(<<"u1F1EE","u1F1F3">>)>>) ],
       [ key |-> <<"u9A6C","u6765","u897F","u4E9A">>,
         pattern |-> PatternSource(FALSE, <<Lit(<<"u9A6C","u6765","u897F","u4E9A">>), Lit(<<"u9A6C","u6765">>), Lit(<<"M","Y">>), Lit(<<"M","a","l","a","y","s","i","a">>), Lit(<<"u1F1F2","u1F1FE">>)>>) ] >>

\* countriesMeta[country]: the index of the entry with that key, 0 when the
\* table has none (undefined).
MetaIndex(country) ==
    IF \E i \in 1..Len(countriesMeta) : countriesMeta[i].key = country
    THEN CHOOSE i \in 1..Len(countriesMeta) : countriesMeta[i].key = country
    ELSE 0

\* 0\.[0-5]|低倍率|省流|大流量|实验性
LowCostAlternatives ==
    << <<{"0"}, {"."}, {"0", "1", "2", "3", "4", "5"}>> >> \o <<Lit(<<"u4F4E","u500D","u7387">>), Lit(<<"u7701","u6D41">>), Lit(<<"u5927","u6D41","u91CF">>), Lit(<<"u5B9E","u9A8C","u6027">>)>>

\* 家宽|家庭|家庭宽带|商宽|商业宽带|星链|Starlink|落地
LandingAlternatives == <<Lit(<<"u5BB6","u5BBD">>), Lit(<<"u5BB6","u5EAD">>), Lit(<<"u5BB6","u5EAD","u5BBD","u5E26">>), Lit(<<"u5546","u5BBD">>), Lit(<<"u5546","u4E1A","u5BBD","u5E26">>), Lit(<<"u661F","u94FE">>), Lit(<<"S","t","a","r","l","i","n","k">>), Lit(<<"u843D","u5730">>)>>

\* /0\.[0-5]|低倍率|省流|大流量|实验性/i
LOW_COST_REGEX == RegExpOf(PatternSource(FALSE, LowCostAlternatives), TRUE)

\* /家宽|家庭|家庭宽带|商宽|商业宽带|星链|Starlink|落地/i
LANDING_REGEX == RegExpOf(PatternSource(FALSE, LandingAlternatives), TRUE)

\* "(?i)家宽|家庭|家庭宽带|商宽|商业宽带|星链|Starlink|落地"
LANDING_PATTERN == PatternSource(TRUE, LandingAlternatives)

\* ------------------------------------------------------------ feature flags

\* A script argument that was not passed.
undefined == [t |-> "undefined"]

\* The value null.
null == [t |-> "null"]

\* args[key] of the $arguments object.
ArgOf(args, key) == IF key \in DOMAIN args THEN args[key] ELSE undefined

parseBool(value) ==
    CASE value.t = "boolean" -> value.b
      [] value.t = "string" ->
            \/ [i \in 1..Len(value.s) |-> ToLowerCase(value.s[i])] = <<"t","r","u","e">>
            \/ value.s = <<"1">>
      [] OTHER -> FALSE

DecimalDigits == {"0", "1", "2", "3", "4", "5", "6", "7", "8", "9"}

DigitValue(c) ==
    CASE c = "0" -> 0 [] c = "1" -> 1 [] c = "2" -> 2 [] c = "3" -> 3 [] c = "4" -> 4
      [] c = "5" -> 5 [] c = "6" -> 6 [] c = "7" -> 7 [] c = "8" -> 8 [] c = "9" -> 9

\* The value of the longest prefix of decimal digits of s from position i on,
\* acc being the value of the digits read so far.
RECURSIVE DigitsValue(_, _, _)
DigitsValue(s, i, acc) ==
    IF i <= Len(s) /\ s[i] \in DecimalDigits
    THEN DigitsValue(s, i + 1, 10 * acc + DigitValue(s[i]))
    ELSE acc

\* The first position of s at or after i that holds no white space.
RECURSIVE SkipWhiteSpace(_, _)
SkipWhiteSpace(s, i) ==
    IF i <= Len(s) /\ s[i] = " " THEN SkipWhiteSpace(s, i + 1) ELSE i

\* parseInt(s, 10) of a string: leading white space, an optional sign, then
\* the longest run of digits; NaN when there is no digit.
parseIntString(s) ==
    LET start == SkipWhiteSpace(s, 1)
        signed == start <= Len(s) /\ s[start] \in {"+", "-"}
        from == IF signed THEN start + 1 ELSE start
    IN  IF from <= Len(s) /\ s[from] \in DecimalDigits
        THEN [nan |-> FALSE,
              n |-> IF signed /\ s[start] = "-"
                    THEN 0 - DigitsValue(s, from, 0)
                    ELSE DigitsValue(s, from, 0)]
        ELSE [nan |-> TRUE]

\* parseInt(value, 10): the value is converted to a string first; an integer
\* prints as its digits, a boolean as "true" or "false".
parseInt(value) ==
    CASE value.t = "string" -> parseIntString(value.s)
      [] value.t = "number" -> [nan |-> FALSE, n |-> value.n]
      [] OTHER -> [nan |-> TRUE]

\* parseNumber with 1 in place of the default for a value that is no number.
parseNumberOneForNaN(value, defaultValue) ==
    IF value.t \in {"null", "undefined"}
    THEN defaultValue
    ELSE LET num == parseInt(value)
         IN  IF num.nan THEN 1 ELSE num.n

parseNumber(value, defaultValue) ==
    IF value.t \in {"null", "undefined"}
    THEN defaultValue
    ELSE LET num == parseInt(value)
         IN  IF num.nan THEN defaultValue ELSE num.n

buildFeatureFlags(args) ==
    [ loadBalance      |-> parseBool(ArgOf(args, "loadbalance")),
      landing          |-> parseBool(ArgOf(args, "landing")),
      ipv6Enabled      |-> parseBool(ArgOf(args, "ipv6")),
      fullConfig       |-> parseBool(ArgOf(args, "full")),
      keepAliveEnabled |-> parseBool(ArgOf(args, "keepalive")),
      fakeIPEnabled    |-> parseBool(ArgOf(args, "fakeip")),
      quicEnabled      |-> parseBool(ArgOf(args, "quic")),
      regexFilter      |-> parseBool(ArgOf(args, "regex")),
      countryThreshold |-> parseNumber(ArgOf(args, "threshold"), 0) ]

\* ----------------------------------------------------------- classification

\* Node names the subscription may hold: plain nodes of 香港, 台湾, 美国 and 澳门,
\* a name matching 韩国 and 美国, a low-cost 香港 node, a landing 美国 node, a
\* landing node with a low rate, a name matching nothing, and 香港节点.
NodeNames ==
    { <<"H","K","1">>, <<"T","W","1">>, <<"U","S","1">>, <<"U","S","-","K","R">>, <<"M","O","1">>, <<"H","K","0",".","3">>, <<"u843D","u5730","U","S">>, <<"u5BB6","u5BBD","0",".","5">>, <<"x","x">>,
      <<"u9999","u6E2F","u8282","u70B9">> }

\* A node list that is never empty: one node stands in for an absent list.
ProxiesOfOrOneNode(cfg) ==
    IF "proxies" \in DOMAIN cfg THEN cfg.proxies ELSE <<[name |-> <<"H","K","1">>]>>

\* config.proxies || []
ProxiesOf(cfg) == IF "proxies" \in DOMAIN cfg THEN cfg.proxies ELSE <<>>

\* array.filter(proxy => REGEX.test(proxy.name)).map(proxy => proxy.name)
\* LOW_COST_REGEX.test(name) and LANDING_REGEX.test(name), tabulated over the
\* node names.
LowCostTest == [name \in NodeNames |-> RegExpTest(LOW_COST_REGEX, name)]

LandingTest == [name \in NodeNames |-> RegExpTest(LANDING_REGEX, name)]

RECURSIVE NamesWhere(_, _)
NamesWhere(proxies, test) ==
    IF proxies = <<>>
    THEN <<>>
    ELSE IF test[Head(proxies).name]
         THEN <<Head(proxies).name>> \o NamesWhere(Tail(proxies), test)
         ELSE NamesWhere(Tail(proxies), test)

parseLowCost(cfg) == NamesWhere(ProxiesOf(cfg), LowCostTest)

parseLandingNodes(cfg) == NamesWhere(ProxiesOf(cfg), LandingTest)

\* compiledRegex of parseCountries: one case-sensitive regex per country, in
\* the order of the country table.
compiledRegex ==
    [i \in 1..Len(countriesMeta) |->
        [country |-> countriesMeta[i].key,
         regex |-> RegExpOf(countriesMeta[i].pattern, FALSE)]]

\* The inner loop of parseCountries from entry i on: the index of the first
\* country, in table order, whose regex matches the name; 0 when none does.
RECURSIVE FirstMatchFrom(_, _)
FirstMatchFrom(name, i) ==
    IF i > Len(compiledRegex)
    THEN 0
    ELSE IF RegExpTest(compiledRegex[i].regex, name)
         THEN i
         ELSE FirstMatchFrom(name, i + 1)

\* A loop that keeps the last matching country instead of stopping at the
\* first.
LastMatch(name) ==
    IF \E i \in 1..Len(compiledRegex) : RegExpTest(compiledRegex[i].regex, name)
    THEN CHOOSE i \in 1..Len(compiledRegex) :
            /\ RegExpTest(compiledRegex[i].regex, name)
            /\ \A j \in (i + 1)..Len(compiledRegex) : ~RegExpTest(compiledRegex[j].regex, name)
    ELSE 0

FirstMatch(name) == FirstMatchFrom(name, 1)

\* A classification that lets landing names through to the countries.
CountryOfKeepsLanding(name) ==
    IF RegExpTest(LOW_COST_REGEX, name) THEN 0 ELSE FirstMatch(name)

\* The country a node name is counted for, 0 when it is skipped: landing and
\* low-cost names are skipped before any country is tried.
CountryOf(name) ==
    IF RegExpTest(LANDING_REGEX, name) THEN 0
    ELSE IF RegExpTest(LOW_COST_REGEX, name) THEN 0
    ELSE FirstMatch(name)

\* CountryOf, tabulated over the node names.
CountryTest == [name \in NodeNames |-> CountryOf(name)]

\* A push that opens a new entry for every node.
PushNodeAlwaysNew(countryNodes, country, name) ==
    Append(countryNodes, [country |-> country, nodes |-> <<name>>])

\* countryNodes[country].push(name) on the insertion-ordered map countryNodes,
\* kept as the sequence of its entries: a new key goes to the end.
PushNode(countryNodes, country, name) ==
    IF \E k \in 1..Len(countryNodes) : countryNodes[k].country = country
    THEN [k \in 1..Len(countryNodes) |->
            IF countryNodes[k].country = country
            THEN [country |-> country, nodes |-> Append(countryNodes[k].nodes, name)]
            ELSE countryNodes[k]]
    ELSE Append(countryNodes, [country |-> country, nodes |-> <<name>>])

\* The loop of parseCountries over the proxies, in input order.
RECURSIVE ClassifyFrom(_, _)
ClassifyFrom(proxies, countryNodes) ==
    IF proxies = <<>>
    THEN countryNodes
    ELSE LET name == Head(proxies).name
             c == CountryTest[name]
         IN  ClassifyFrom(Tail(proxies),
                          IF c = 0 THEN countryNodes
                          ELSE PushNode(countryNodes, compiledRegex[c].country, name))

\* A parseCountries whose map starts with an empty entry for every country.
parseCountriesAllCountries(cfg) ==
    ClassifyFrom(ProxiesOf(cfg),
                 [i \in 1..Len(countriesMeta) |->
                    [country |-> countriesMeta[i].key, nodes |-> <<>>]])

\* The result lists the entries of countryNodes in insertion order.
parseCountries(cfg) == ClassifyFrom(ProxiesOf(cfg), <<>>)

\* ------------------------------------------------------ surfaced countries

\* countriesMeta[country]?.weight ?? Infinity
WeightOf(country) ==
    LET i == MetaIndex(country)
    IN  IF i # 0 /\ "weight" \in DOMAIN countriesMeta[i]
        THEN [inf |-> FALSE, n |-> countriesMeta[i].weight]
        ELSE [inf |-> TRUE]

\* The sort comparator wa - wb, as the sign the sort reads from it:
\* Infinity - Infinity is NaN, which the sort takes as +0.
CompareWeight(a, b) ==
    LET wa == WeightOf(a.country)
        wb == WeightOf(b.country)
    IN  CASE wa.inf /\ wb.inf -> 0
          [] wa.inf -> 1
          [] wb.inf -> -1
          [] OTHER -> wa.n - wb.n

\* One step of the stable sort: x goes behind every element that does not
\* compare greater than it.
RECURSIVE InsertSorted(_, _)
InsertSorted(sorted, x) ==
    IF sorted = <<>>
    THEN <<x>>
    ELSE IF CompareWeight(Head(sorted), x) > 0
         THEN <<x>> \o sorted
         ELSE <<Head(sorted)>> \o InsertSorted(Tail(sorted), x)

\* Array.prototype.sort with CompareWeight: stable.
RECURSIVE SortByWeight(_)
SortByWeight(items) ==
    IF items = <<>>
    THEN <<>>
    ELSE InsertSorted(SortByWeight(SubSeq(items, 1, Len(items) - 1)), items[Len(items)])

\* A filter that wants more nodes than minCount.
getCountryGroupNamesStrict(countryInfo, minCount) ==
    LET filtered == SelectSeq(countryInfo, LAMBDA item : Len(item.nodes) > minCount)
        sorted == SortByWeight(filtered)
    IN  [k \in 1..Len(sorted) |-> sorted[k].country \o NODE_SUFFIX]

getCountryGroupNames(countryInfo, minCount) ==
    LET filtered == SelectSeq(countryInfo, LAMBDA item : Len(item.nodes) >= minCount)
        sorted == SortByWeight(filtered)
    IN  [k \in 1..Len(sorted) |-> sorted[k].country \o NODE_SUFFIX]

\* name.replace(/节点$/, ""): a trailing suffix is removed once.
StripSuffix(name) ==
    LET n == Len(name)
        m == Len(NODE_SUFFIX)
    IN  IF n >= m /\ SubSeq(name, n - m + 1, n) = NODE_SUFFIX
        THEN SubSeq(name, 1, n - m)
        ELSE name

\* The group names as they are, suffix kept.
stripNodeSuffixKeepsSuffix(groupNames) == groupNames

stripNodeSuffix(groupNames) == [k \in 1..Len(groupNames) |-> StripSuffix(groupNames[k])]

\* ---------------------------------------------------------- candidate lists

\* Concatenation of a sequence of sequences.
RECURSIVE Flat(_)
Flat(elements) ==
    IF elements = <<>> THEN <<>> ELSE Head(elements) \o Flat(Tail(elements))

\* condition && value, as buildList sees it: the value, or a falsy dropped.
When(condition, value) == IF condition THEN <<value>> ELSE <<>>

\* buildList(...elements): flattened by one level, falsy entries (false and
\* the empty string) dropped.  Each argument is given as the sequence of the
\* names it contributes.
buildList(elements) == SelectSeq(Flat(elements), LAMBDA name : name # <<>>)

\* DIRECT, the built-in target
BuiltinDirect == <<"D","I","R","E","C","T">>

\* The lists with the low-cost entry tied to the enumerated nodes alone.
buildBaseListsLowCostByNodes(landing, lowCostNodes, countryGroupNames, regexFilter) ==
    LET lowCost == Len(lowCostNodes) > 0
    IN  [ defaultSelector |->
            buildList(<< <<PROXY_GROUPS.FALLBACK>>,
                         When(landing, PROXY_GROUPS.LANDING),
                         countryGroupNames,
                         When(lowCost, PROXY_GROUPS.LOW_COST),
                         <<PROXY_GROUPS.MANUAL>>,
                         <<BuiltinDirect>> >>),
          defaultProxies |->
            buildList(<< <<PROXY_GROUPS.SELECT>>,
                         countryGroupNames,
                         When(lowCost, PROXY_GROUPS.LOW_COST),
                         <<PROXY_GROUPS.MANUAL>>,
                         <<PROXY_GROUPS.DIRECT>> >>),
          defaultProxiesDirect |->
            buildList(<< <<PROXY_GROUPS.DIRECT>>,
                         countryGroupNames,
                         When(lowCost, PROXY_GROUPS.LOW_COST),
                         <<PROXY_GROUPS.SELECT>>,
                         <<PROXY_GROUPS.MANUAL>> >>),
          defaultFallback |->
            buildList(<< When(landing, PROXY_GROUPS.LANDING),
                         countryGroupNames,
                         When(lowCost, PROXY_GROUPS.LOW_COST),
                         <<PROXY_GROUPS.MANUAL>>,
                         <<BuiltinDirect>> >>) ]

\* The lists with the Selector name heading the Fallback list.
buildBaseListsFallbackViaSelector(landing, lowCostNodes, countryGroupNames, regexFilter) ==
    LET lowCost == Len(lowCostNodes) > 0 \/ regexFilter
    IN  [ defaultSelector |->
            buildList(<< <<PROXY_GROUPS.FALLBACK>>,
                         When(landing, PROXY_GROUPS.LANDING),
                         countryGroupNames,
                         When(lowCost, PROXY_GROUPS.LOW_COST),
                         <<PROXY_GROUPS.MANUAL>>,
                         <<BuiltinDirect>> >>),
          defaultProxies |->
            buildList(<< <<PROXY_GROUPS.SELECT>>,
                         countryGroupNames,
                         When(lowCost, PROXY_GROUPS.LOW_COST),
                         <<PROXY_GROUPS.MANUAL>>,
                         <<PROXY_GROUPS.DIRECT>> >>),
          defaultProxiesDirect |->
            buildList(<< <<PROXY_GROUPS.DIRECT>>,
                         countryGroupNames,
                         When(lowCost, PROXY_GROUPS.LOW_COST),
                         <<PROXY_GROUPS.SELECT>>,
                         <<PROXY_GROUPS.MANUAL>> >>),
          defaultFallback |->
            buildList(<< <<PROXY_GROUPS.SELECT>>,
                         When(landing, PROXY_GROUPS.LANDING),
                         countryGroupNames,
                         When(lowCost, PROXY_GROUPS.LOW_COST),
                         <<PROXY_GROUPS.MANUAL>>,
                         <<BuiltinDirect>> >>) ]

\* The lists with the Direct group, not the built-in target, closing the
\* Selector list.
buildBaseListsSelectorViaDirectGroup(landing, lowCostNodes, countryGroupNames, regexFilter) ==
    LET lowCost == Len(lowCostNodes) > 0 \/ regexFilter
    IN  [ defaultSelector |->
            buildList(<< <<PROXY_GROUPS.FALLBACK>>,
                         When(landing, PROXY_GROUPS.LANDING),
                         countryGroupNames,
                         When(lowCost, PROXY_GROUPS.LOW_COST),
                         <<PROXY_GROUPS.MANUAL>>,
                         <<PROXY_GROUPS.DIRECT>> >>),
          defaultProxies |->
            buildList(<< <<PROXY_GROUPS.SELECT>>,
                         countryGroupNames,
                         When(lowCost, PROXY_GROUPS.LOW_COST),
                         <<PROXY_GROUPS.MANUAL>>,
                         <<PROXY_GROUPS.DIRECT>> >>),
          defaultProxiesDirect |->
            buildList(<< <<PROXY_GROUPS.DIRECT>>,
                         countryGroupNames,
                         When(lowCost, PROXY_GROUPS.LOW_COST),
                         <<PROXY_GROUPS.SELECT>>,
                         <<PROXY_GROUPS.MANUAL>> >>),
          defaultFallback |->
            buildList(<< When(landing, PROXY_GROUPS.LANDING),
                         countryGroupNames,
                         When(lowCost, PROXY_GROUPS.LOW_COST),
                         <<PROXY_GROUPS.MANUAL>>,
                         <<BuiltinDirect>> >>) ]

buildBaseLists(landing, lowCostNodes, countryGroupNames, regexFilter) ==
    LET lowCost == Len(lowCostNodes) > 0 \/ regexFilter
    IN  [ defaultSelector |->
            buildList(<< <<PROXY_GROUPS.FALLBACK>>,
                         When(landing, PROXY_GROUPS.LANDING),
                         countryGroupNames,
                         When(lowCost, PROXY_GROUPS.LOW_COST),
                         <<PROXY_GROUPS.MANUAL>>,
                         <<BuiltinDirect>> >>),
          defaultProxies |->
            buildList(<< <<PROXY_GROUPS.SELECT>>,
                         countryGroupNames,
                         When(lowCost, PROXY_GROUPS.LOW_COST),
                         <<PROXY_GROUPS.MANUAL>>,
                         <<PROXY_GROUPS.DIRECT>> >>),
          defaultProxiesDirect |->
            buildList(<< <<PROXY_GROUPS.DIRECT>>,
                         countryGroupNames,
                         When(lowCost, PROXY_GROUPS.LOW_COST),
                         <<PROXY_GROUPS.SELECT>>,
                         <<PROXY_GROUPS.MANUAL>> >>),
          defaultFallback |->
            buildList(<< When(landing, PROXY_GROUPS.LANDING),
                         countryGroupNames,
                         When(lowCost, PROXY_GROUPS.LOW_COST),
                         <<PROXY_GROUPS.MANUAL>>,
                         <<BuiltinDirect>> >>) ]
\* ------------------------------------------------------------ country groups

\* The probe URL of the health checks.
ProbeUrl == "https://cp.cloudflare.com/generate_204"

\* "0\\.[0-5]|低倍率|省流|大流量|实验性"
baseExcludeFilter == PatternSource(FALSE, LowCostAlternatives)

\* `${p}|${q}`: the alternatives of q follow those of p; an inline flag at the
\* start of p stays at the start.
JoinPatterns(p, q) == PatternSource(p.inlineI, p.alts \o q.alts)

\* The first node of a country alone.
NodesByCountryFirstOnly(countryInfo, country) ==
    IF \E k \in 1..Len(countryInfo) : countryInfo[k].country = country
    THEN SubSeq(countryInfo[CHOOSE k \in 1..Len(countryInfo) :
                                countryInfo[k].country = country].nodes, 1, 1)
    ELSE <<>>

\* nodesByCountry[country] || []
NodesByCountry(countryInfo, country) ==
    IF \E k \in 1..Len(countryInfo) : countryInfo[k].country = country
    THEN countryInfo[CHOOSE k \in 1..Len(countryInfo) : countryInfo[k].country = country].nodes
    ELSE <<>>

\* The health check a url-test country group is given.
CountryHealthCheck == [url |-> ProbeUrl, interval |-> 60, tolerance |-> 20, lazy |-> FALSE]

\* The group of one country, with the health check whatever its type.
CountryGroupAlwaysProbed(country, landing, loadBalance, regexFilter, countryInfo) ==
    LET meta == countriesMeta[MetaIndex(country)]
        groupType == IF loadBalance THEN "load-balance" ELSE "url-test"
        groupConfig ==
            IF ~regexFilter
            THEN [ name |-> country \o NODE_SUFFIX,
                   type |-> groupType,
                   proxies |-> NodesByCountry(countryInfo, country) ]
            ELSE [ name |-> country \o NODE_SUFFIX,
                   include_all |-> TRUE,
                   filter |-> meta.pattern,
                   exclude_filter |-> IF landing
                                      THEN JoinPatterns(LANDING_PATTERN, baseExcludeFilter)
                                      ELSE baseExcludeFilter,
                   type |-> groupType ]
    IN  CountryHealthCheck @@ groupConfig

\* The group of one country of the table.
CountryGroup(country, landing, loadBalance, regexFilter, countryInfo) ==
    LET meta == countriesMeta[MetaIndex(country)]
        groupType == IF loadBalance THEN "load-balance" ELSE "url-test"
        groupConfig ==
            IF ~regexFilter
            THEN [ name |-> country \o NODE_SUFFIX,
                   type |-> groupType,
                   proxies |-> NodesByCountry(countryInfo, country) ]
            ELSE [ name |-> country \o NODE_SUFFIX,
                   include_all |-> TRUE,
                   filter |-> meta.pattern,
                   exclude_filter |-> IF landing
                                      THEN JoinPatterns(LANDING_PATTERN, baseExcludeFilter)
                                      ELSE baseExcludeFilter,
                   type |-> groupType ]
    IN  IF ~loadBalance THEN CountryHealthCheck @@ groupConfig ELSE groupConfig

\* One group per country of the list but the first one.
buildCountryProxyGroupsButFirst(countries, landing, loadBalance, regexFilter, countryInfo) ==
    LET known == SelectSeq(countries, LAMBDA country : MetaIndex(country) # 0)
    IN  [k \in 1..(Len(known) - 1) |->
            CountryGroup(known[k + 1], landing, loadBalance, regexFilter, countryInfo)]

\* One group per country of the list that the table knows, in list order.
RECURSIVE buildCountryProxyGroups(_, _, _, _, _)
buildCountryProxyGroups(countries, landing, loadBalance, regexFilter, countryInfo) ==
    IF countries = <<>>
    THEN <<>>
    ELSE (IF MetaIndex(Head(countries)) = 0
          THEN <<>>
          ELSE <<CountryGroup(Head(countries), landing, loadBalance, regexFilter, countryInfo)>>)
         \o buildCountryProxyGroups(Tail(countries), landing, loadBalance, regexFilter,
                                    countryInfo)

\* -------------------------------------------------------------- all groups

\* array.includes(x)
Includes(array, x) == \E k \in 1..Len(array) : array[k] = x

\* A select group with an enumerated candidate list.
SelectGroup(name, proxies) == [name |-> name, type |-> "select", proxies |-> proxies]

\* 前置代理
FrontProxyName == <<"u524D","u7F6E","u4EE3","u7406">>

\* "(?i)0\\.[0-5]|低倍率|省流|大流量|实验性"
LowCostFilter == PatternSource(TRUE, LowCostAlternatives)

\* defaultSelector without the Landing name alone.
frontProxySelectorKeepsFallback(landing, defaultSelector) ==
    IF landing
    THEN SelectSeq(defaultSelector, LAMBDA name : name # PROXY_GROUPS.LANDING)
    ELSE <<>>

\* defaultSelector without the Landing and the Fallback name; empty when the
\* landing flag is off.
frontProxySelector(landing, defaultSelector) ==
    IF landing
    THEN SelectSeq(defaultSelector,
                   LAMBDA name : name # PROXY_GROUPS.LANDING /\ name # PROXY_GROUPS.FALLBACK)
    ELSE <<>>

buildProxyGroups(landing, regexFilter, countries, countryProxyGroups, lowCostNodes, landingNodes, lists) ==
    LET hasTW == Includes(countries, <<"u53F0","u6E7E">>)
        hasHK == Includes(countries, <<"u9999","u6E2F">>)
        hasUS == Includes(countries, <<"u7F8E","u56FD">>)
        defaultProxies == lists.defaultProxies
    IN  Flat(<<
          <<SelectGroup(PROXY_GROUPS.SELECT, lists.defaultSelector)>>,
          <<[name |-> PROXY_GROUPS.MANUAL, include_all |-> TRUE, type |-> "select"]>>,
          When(landing,
               IF regexFilter
               THEN [ name |-> FrontProxyName, type |-> "select", include_all |-> TRUE,
                      exclude_filter |-> LANDING_PATTERN,
                      proxies |-> frontProxySelector(landing, lists.defaultSelector) ]
               ELSE [ name |-> FrontProxyName, type |-> "select",
                      proxies |-> frontProxySelector(landing, lists.defaultSelector) ]),
          When(landing,
               IF regexFilter
               THEN [ name |-> PROXY_GROUPS.LANDING, type |-> "select",
                      include_all |-> TRUE, filter |-> LANDING_PATTERN ]
               ELSE [ name |-> PROXY_GROUPS.LANDING, type |-> "select",
                      proxies |-> landingNodes ]),
          <<[ name |-> PROXY_GROUPS.FALLBACK, type |-> "fallback", url |-> ProbeUrl,
              proxies |-> lists.defaultFallback, interval |-> 180, tolerance |-> 20,
              lazy |-> FALSE ]>>,
          <<SelectGroup(<<"u9759","u6001","u8D44","u6E90">>, defaultProxies)>>,
          <<SelectGroup(<<"A","I">>, defaultProxies)>>,
          <<SelectGroup(<<"C","r","y","p","t","o">>, defaultProxies)>>,
          <<SelectGroup(<<"G","o","o","g","l","e">>, defaultProxies)>>,
          <<SelectGroup(<<"M","i","c","r","o","s","o","f","t">>, defaultProxies)>>,
          <<SelectGroup(<<"Y","o","u","T","u","b","e">>, defaultProxies)>>,
          <<SelectGroup(<<"B","i","l","i","b","i","l","i">>,
                        IF hasTW /\ hasHK
                        THEN <<PROXY_GROUPS.DIRECT, <<"u53F0","u6E7E","u8282","u70B9">>, <<"u9999","u6E2F","u8282","u70B9">>>>
                        ELSE lists.defaultProxiesDirect)>>,
          <<SelectGroup(<<"B","a","h","a","m","u","t">>,
                        IF hasTW
                        THEN <<<<"u53F0","u6E7E","u8282","u70B9">>, PROXY_GROUPS.SELECT, PROXY_GROUPS.MANUAL,
                               PROXY_GROUPS.DIRECT>>
                        ELSE defaultProxies)>>,
          <<SelectGroup(<<"N","e","t","f","l","i","x">>, defaultProxies)>>,
          <<SelectGroup(<<"T","i","k","T","o","k">>, defaultProxies)>>,
          <<SelectGroup(<<"S","p","o","t","i","f","y">>, defaultProxies)>>,
          <<SelectGroup(<<"E","-","H","e","n","t","a","i">>, defaultProxies)>>,
          <<SelectGroup(<<"T","e","l","e","g","r","a","m">>, defaultProxies)>>,
          <<SelectGroup(<<"T","r","u","t","h"," ","S","o","c","i","a","l">>,
                        IF hasUS
                        THEN <<<<"u7F8E","u56FD","u8282","u70B9">>, PROXY_GROUPS.SELECT, PROXY_GROUPS.MANUAL>>
                        ELSE defaultProxies)>>,
          <<SelectGroup(<<"O","n","e","D","r","i","v","e">>, defaultProxies)>>,
          <<SelectGroup(<<"P","i","k","P","a","k">>, defaultProxies)>>,
          <<SelectGroup(<<"S","S","H","(","2","2","u7AEF","u53E3",")">>, defaultProxies)>>,
          <<SelectGroup(<<"u641C","u72D7","u8F93","u5165","u6CD5">>, <<PROXY_GROUPS.DIRECT, <<"R","E","J","E","C","T">>>>)>>,
          <<SelectGroup(PROXY_GROUPS.DIRECT, <<BuiltinDirect, PROXY_GROUPS.SELECT>>)>>,
          <<SelectGroup(<<"u5E7F","u544A","u62E6","u622A">>, <<<<"R","E","J","E","C","T">>, <<"R","E","J","E","C","T","-","D","R","O","P">>, PROXY_GROUPS.DIRECT>>)>>,
          When(Len(lowCostNodes) > 0 \/ regexFilter,
               IF ~regexFilter
               THEN [ name |-> PROXY_GROUPS.LOW_COST, type |-> "url-test", url |-> ProbeUrl,
                      proxies |-> lowCostNodes ]
               ELSE [ name |-> PROXY_GROUPS.LOW_COST, type |-> "url-test", url |-> ProbeUrl,
                      include_all |-> TRUE, filter |-> LowCostFilter ]),
          countryProxyGroups >>)

\* ------------------------------------------------------------------- rules

\* The rule that rejects UDP port 443.
QuicRejectRule == <<"A","N","D",",","(","(","D","S","T","-","P","O","R","T",",","4","4","3",")",",","(","N","E","T","W","O","R","K",",","U","D","P",")",")",",","R","E","J","E","C","T">>

\* The initial content of the script's rule array.
InitialBaseRules ==
    << <<"R","U","L","E","-","S","E","T",",","A","D","B","l","o","c","k",",","u5E7F","u544A","u62E6","u622A">>,
       <<"R","U","L","E","-","S","E","T",",","A","d","d","i","t","i","o","n","a","l","F","i","l","t","e","r",",","u5E7F","u544A","u62E6","u622A">>,
       <<"R","U","L","E","-","S","E","T",",","S","o","g","o","u","I","n","p","u","t",",","u641C","u72D7","u8F93","u5165","u6CD5">>,
       <<"D","O","M","A","I","N","-","S","U","F","F","I","X",",","t","r","u","t","h","s","o","c","i","a","l",".","c","o","m",",","T","r","u","t","h"," ","S","o","c","i","a","l">>,
       <<"R","U","L","E","-","S","E","T",",","S","t","a","t","i","c","R","e","s","o","u","r","c","e","s",",","u9759","u6001","u8D44","u6E90">>,
       <<"R","U","L","E","-","S","E","T",",","C","D","N","R","e","s","o","u","r","c","e","s",",","u9759","u6001","u8D44","u6E90">>,
       <<"R","U","L","E","-","S","E","T",",","A","d","d","i","t","i","o","n","a","l","C","D","N","R","e","s","o","u","r","c","e","s",",","u9759","u6001","u8D44","u6E90">>,
       <<"R","U","L","E","-","S","E","T",",","C","r","y","p","t","o",",","C","r","y","p","t","o">>,
       <<"R","U","L","E","-","S","E","T",",","E","H","e","n","t","a","i",",","E","-","H","e","n","t","a","i">>,
       <<"R","U","L","E","-","S","E","T",",","T","i","k","T","o","k",",","T","i","k","T","o","k">>,
       <<"R","U","L","E","-","S","E","T",",","S","t","e","a","m","F","i","x",",">> \o PROXY_GROUPS.DIRECT,
       <<"R","U","L","E","-","S","E","T",",","G","o","o","g","l","e","F","C","M",",">> \o PROXY_GROUPS.DIRECT,
       <<"D","O","M","A","I","N",",","s","e","r","v","i","c","e","s",".","g","o","o","g","l","e","a","p","i","s",".","c","n",",">> \o PROXY_GROUPS.SELECT,
       <<"G","E","O","S","I","T","E",",","C","A","T","E","G","O","R","Y","-","A","I","-","!","C","N",",","A","I">>,
       <<"G","E","O","S","I","T","E",",","G","O","O","G","L","E","-","P","L","A","Y","@","C","N",",">> \o PROXY_GROUPS.DIRECT,
       <<"G","E","O","S","I","T","E",",","M","I","C","R","O","S","O","F","T","@","C","N",",">> \o PROXY_GROUPS.DIRECT,
       <<"G","E","O","S","I","T","E",",","O","N","E","D","R","I","V","E",",","O","n","e","D","r","i","v","e">>,
       <<"G","E","O","S","I","T","E",",","M","I","C","R","O","S","O","F","T",",","M","i","c","r","o","s","o","f","t">>,
       <<"G","E","O","S","I","T","E",",","T","E","L","E","G","R","A","M",",","T","e","l","e","g","r","a","m">>,
       <<"G","E","O","S","I","T","E",",","Y","O","U","T","U","B","E",",","Y","o","u","T","u","b","e">>,
       <<"G","E","O","S","I","T","E",",","G","O","O","G","L","E",",","G","o","o","g","l","e">>,
       <<"G","E","O","S","I","T","E",",","N","E","T","F","L","I","X",",","N","e","t","f","l","i","x">>,
       <<"G","E","O","S","I","T","E",",","S","P","O","T","I","F","Y",",","S","p","o","t","i","f","y">>,
       <<"G","E","O","S","I","T","E",",","B","A","H","A","M","U","T",",","B","a","h","a","m","u","t">>,
       <<"G","E","O","S","I","T","E",",","B","I","L","I","B","I","L","I",",","B","i","l","i","b","i","l","i">>,
       <<"G","E","O","S","I","T","E",",","P","I","K","P","A","K",",","P","i","k","P","a","k">>,
       <<"G","E","O","S","I","T","E",",","G","F","W",",">> \o PROXY_GROUPS.SELECT,
       <<"G","E","O","S","I","T","E",",","C","N",",">> \o PROXY_GROUPS.DIRECT,
       <<"G","E","O","S","I","T","E",",","P","R","I","V","A","T","E",",">> \o PROXY_GROUPS.DIRECT,
       <<"G","E","O","I","P",",","N","E","T","F","L","I","X",",","N","e","t","f","l","i","x",",","n","o","-","r","e","s","o","l","v","e">>,
       <<"G","E","O","I","P",",","T","E","L","E","G","R","A","M",",","T","e","l","e","g","r","a","m",",","n","o","-","r","e","s","o","l","v","e">>,
       <<"G","E","O","I","P",",","C","N",",">> \o PROXY_GROUPS.DIRECT,
       <<"G","E","O","I","P",",","P","R","I","V","A","T","E",",">> \o PROXY_GROUPS.DIRECT,
       <<"D","S","T","-","P","O","R","T",",","2","2",",","S","S","H","(","2","2","u7AEF","u53E3",")">>,
       <<"M","A","T","C","H",",">> \o PROXY_GROUPS.SELECT >>

\* A buildRules that works on the script's rule array itself.
buildRulesInPlace(quicEnabled, rules) ==
    LET ruleList == IF ~quicEnabled THEN <<QuicRejectRule>> \o rules ELSE rules
    IN  [ruleList |-> ruleList, baseRules |-> ruleList]

\* buildRules works on a copy of the rule array: the rule list it returns, and
\* the script's rule array after the call.
buildRules(quicEnabled, rules) ==
    [ ruleList |-> IF ~quicEnabled THEN <<QuicRejectRule>> \o rules ELSE rules,
      baseRules |-> rules ]

\* -------------------------------------------------------------------- main

\* GLOBAL
GlobalName == <<"G","L","O","B","A","L">>

\* A catch-all group that misses the group built last.
GlobalGroupOffByOne(proxyGroups) ==
    [ name |-> GlobalName, include_all |-> TRUE, type |-> "select",
      proxies |-> [k \in 1..(Len(proxyGroups) - 1) |-> proxyGroups[k].name] ]

\* The catch-all group over the groups built so far.
GlobalGroup(proxyGroups) ==
    [ name |-> GlobalName, include_all |-> TRUE, type |-> "select",
      proxies |-> [k \in 1..Len(proxyGroups) |-> proxyGroups[k].name] ]

\* main, from the country groups on: the groups of buildProxyGroups followed
\* by GLOBAL.
MainGroups(fl, countries, lowCostNodes, landingNodes, lists, countryProxyGroups) ==
    LET proxyGroups ==
            buildProxyGroups(fl.landing, fl.regexFilter, countries, countryProxyGroups,
                             lowCostNodes, landingNodes, lists)
    IN  Append(proxyGroups, GlobalGroup(proxyGroups))

\* main, from the country group names on.
MainNames(fl, countryInfo, lowCostNodes, landingNodes, countryGroupNames, countries) ==
    MainGroups(fl, countries, lowCostNodes, landingNodes,
               buildBaseLists(fl.landing, lowCostNodes, countryGroupNames, fl.regexFilter),
               buildCountryProxyGroups(countries, fl.landing, fl.loadBalance, fl.regexFilter,
                                       countryInfo))

\* main, from the parsed node lists on.
MainParsed(fl, countryInfo, lowCostNodes, landingNodes, countryGroupNames) ==
    MainNames(fl, countryInfo, lowCostNodes, landingNodes, countryGroupNames,
              stripNodeSuffix(countryGroupNames))

\* The proxyGroups of main when it returns.
MainProxyGroups(cfg, fl, countryInfo) ==
    MainParsed(fl, countryInfo, parseLowCost(cfg),
               IF fl.landing THEN parseLandingNodes(cfg) ELSE <<>>,
               getCountryGroupNames(countryInfo, fl.countryThreshold))

\* A return that keeps only the nodes some pattern matches.
MainReturnMatchedOnly(cfg, proxyGroups, finalRules) ==
    [ resultConfig |->
        IF "proxies" \in DOMAIN cfg
        THEN [ proxies |-> SelectSeq(cfg.proxies,
                                     LAMBDA p : \/ LandingTest[p.name]
                                                \/ LowCostTest[p.name]
                                                \/ CountryTest[p.name] # 0),
               proxy_groups |-> proxyGroups,
               rules |-> finalRules.ruleList ]
        ELSE [ proxy_groups |-> proxyGroups, rules |-> finalRules.ruleList ],
      baseRules |-> finalRules.baseRules ]

\* What main returns and the script's rule array after the call.  The
\* returned proxies are the argument's own.
MainReturn(cfg, proxyGroups, finalRules) ==
    [ resultConfig |->
        IF "proxies" \in DOMAIN cfg
        THEN [ proxies |-> cfg.proxies, proxy_groups |-> proxyGroups,
               rules |-> finalRules.ruleList ]
        ELSE [ proxy_groups |-> proxyGroups, rules |-> finalRules.ruleList ],
      baseRules |-> finalRules.baseRules ]

\* main(config), with the script's flags and rule array.
main(cfg, fl, rules) ==
    MainReturn(cfg, MainProxyGroups(cfg, fl, parseCountries(cfg)),
               buildRules(fl.quicEnabled, rules))

\* ------------------------------------------------- src/convert.js (variant)

\* The country table of convert.js, in declaration order; every pattern
\* starts with the inline flag (?i).
convert_countriesMeta ==
    << [ key |-> <<"u9999","u6E2F">>,
         pattern |-> PatternSource(TRUE, <<Lit(<<"u9999","u6E2F">>), Lit(<<"u6E2F">>), Lit(<<"H","K">>), Lit(<<"h","k">>), Lit(<<"H","o","n","g"," ","K","o","n","g">>), Lit(<<"H","o","n","g","K","o","n","g">>), Lit(<<"h","o","n","g","k","o","n","g">>), Lit(<<"u1F1ED","u1F1F0">>)>>) ],
       [ key |-> <<"u6FB3","u95E8">>, pattern |-> PatternSource(TRUE, <<Lit(<<"u6FB3","u95E8">>), Lit(<<"M","O">>), Lit(<<"M","a","c","a","u">>), Lit(<<"u1F1F2","u1F1F4">>)>>) ],
       [ key |-> <<"u53F0","u6E7E">>, pattern |-> PatternSource(TRUE, <<Lit(<<"u53F0">>), Lit(<<"u65B0","u5317">>), Lit(<<"u5F70","u5316">>), Lit(<<"T","W">>), Lit(<<"T","a","i","w","a","n">>), Lit(<<"u1F1F9","u1F1FC">>)>>) ],
       [ key |-> <<"u72EE","u57CE">>,
         pattern |-> PatternSource(TRUE, <<Lit(<<"u65B0","u52A0","u5761">>), Lit(<<"u5761">>), Lit(<<"u72EE","u57CE">>), Lit(<<"S","G">>), Lit(<<"S","i","n","g","a","p","o","r","e">>), Lit(<<"u1F1F8","u1F1EC">>)>>) ],
       [ key |-> <<"u65E5","u672C">>,
         pattern |-> PatternSource(TRUE, <<Lit(<<"u65E5","u672C">>), Lit(<<"u5DDD","u65E5">>), Lit(<<"u4E1C","u4EAC">>), Lit(<<"u5927","u962A">>), Lit(<<"u6CC9","u65E5">>), Lit(<<"u57FC","u7389">>), Lit(<<"u6CAA","u65E5">>), Lit(<<"u6DF1","u65E5">>), Lit(<<"J","P">>), Lit(<<"J","a","p","a","n">>), Lit(<<"u1F1EF","u1F1F5">>)>>) ],
       [ key |-> <<"u97E9","u56FD">>, pattern |-> PatternSource(TRUE, <<Lit(<<"K","R">>), Lit(<<"K","o","r","e","a">>), Lit(<<"K","O","R">>), Lit(<<"u9996","u5C14">>), Lit(<<"u97E9">>), Lit(<<"u97D3">>), Lit(<<"u1F1F0","u1F1F7">>)>>) ],
       [ key |-> <<"u7F8E","u56FD">>, pattern |-> PatternSource(TRUE, <<Lit(<<"u7F8E","u56FD">>), Lit(<<"u7F8E">>), Lit(<<"U","S">>), Lit(<<"U","n","i","t","e","d"," ","S","t","a","t","e","s">>), Lit(<<"u1F1FA","u1F1F8">>)>>) ],
       [ key |-> <<"u52A0","u62FF","u5927">>, pattern |-> PatternSource(TRUE, <<Lit(<<"u52A0","u62FF","u5927">>), Lit(<<"C","a","n","a","d","a">>), Lit(<<"C","A">>), Lit(<<"u1F1E8","u1F1E6">>)>>) ],
       [ key |-> <<"u82F1","u56FD">>,
         pattern |-> PatternSource(TRUE, <<Lit(<<"u82F1","u56FD">>), Lit(<<"U","n","i","t","e","d"," ","K","i","n","g","d","o","m">>), Lit(<<"U","K">>), Lit(<<"u4F26","u6566">>), Lit(<<"L","o","n","d","o","n">>), Lit(<<"u1F1EC","u1F1E7">>)>>) ],
       [ key |-> <<"u6FB3","u6D32">>, pattern |-> PatternSource(TRUE, <<Lit(<<"u6FB3","u6D32">>), Lit(<<"u6FB3","u5927","u5229","u4E9A">>), Lit(<<"A","U">>), Lit(<<"A","u","s","t","r","a","l","i","a">>), Lit(<<"u1F1E6","u1F1FA">>)>>) ],
       [ key |-> <<"u5FB7","u56FD">>, pattern |-> PatternSource(TRUE, <<Lit(<<"u5FB7","u56FD">>), Lit(<<"u5FB7">>), Lit(<<"D","E">>), Lit(<<"G","e","r","m","a","n","y">>), Lit(<<"u1F1E9","u1F1EA">>)>>) ],
       [ key |-> <<"u6CD5","u56FD">>, pattern |-> PatternSource(TRUE, <<Lit(<<"u6CD5","u56FD">>), Lit(<<"u6CD5">>), Lit(<<"F","R">>), Lit(<<"F","r","a","n","c","e">>), Lit(<<"u1F1EB","u1F1F7">>)>>) ],
       [ key |-> <<"u4FC4","u7F57","u65AF">>, pattern |-> PatternSource(TRUE, <<Lit(<<"u4FC4","u7F57","u65AF">>), Lit(<<"u4FC4">>), Lit(<<"R","U">>), Lit(<<"R","u","s","s","i","a">>), Lit(<<"u1F1F7","u1F1FA">>)>>) ],
       [ key |-> <<"u6CF0","u56FD">>, pattern |-> PatternSource(TRUE, <<Lit(<<"u6CF0","u56FD">>), Lit(<<"u6CF0">>), Lit(<<"T","H">>), Lit(<<"T","h","a","i","l","a","n","d">>), Lit(<<"u1F1F9","u1F1ED">>)>>) ],
       [ key |-> <<"u5370","u5EA6">>, pattern |-> PatternSource(TRUE, <<Lit(<<"u5370","u5EA6">>), Lit(<<"I","N">>), Lit(<<"I","n","d","i","a">>), Lit(<<"u1F1EE","u1F1F3">>)>>) ],
       [ key |-> <<"u9A6C","u6765","u897F","u4E9A">>, pattern |-> PatternSource(TRUE, <<Lit(<<"u9A6C","u6765","u897F","u4E9A">>), Lit(<<"u9A6C","u6765">>), Lit(<<"M","Y">>), Lit(<<"M","a","l","a","y","s","i","a">>), Lit(<<"u1F1F2","u1F1FE">>)>>) ],
       [ key |-> <<"u8377","u5170">>, pattern |-> PatternSource(TRUE, <<Lit(<<"u8377","u5170">>), Lit(<<"u5C3C","u5FB7","u5170">>), Lit(<<"N","L">>), Lit(<<"N","e","t","h","e","r","l","a","n","d","s">>), Lit(<<"u1F1F3","u1F1F1">>)>>) ] >>

\* The flags convert.js resolves from $arguments.
convert_flags(args) ==
    [ loadBalance      |-> parseBool(ArgOf(args, "loadbalance")),
      landing          |-> parseBool(ArgOf(args, "landing")),
      ipv6Enabled      |-> parseBool(ArgOf(args, "ipv6")),
      fullConfig       |-> parseBool(ArgOf(args, "full")),
      keepAliveEnabled |-> parseBool(ArgOf(args, "keepalive")),
      fakeIPEnabled    |-> parseBool(ArgOf(args, "fakeip")) ]

\* compiledRegex of convert.js: one regex with the i flag per country.
convert_compiledRegex ==
    [i \in 1..Len(convert_countriesMeta) |->
        [country |-> convert_countriesMeta[i].key,
         regex |-> RegExpOf(convert_countriesMeta[i].pattern, TRUE)]]

RECURSIVE convert_FirstMatchFrom(_, _)
convert_FirstMatchFrom(name, i) ==
    IF i > Len(convert_compiledRegex)
    THEN 0
    ELSE IF RegExpTest(convert_compiledRegex[i].regex, name)
         THEN i
         ELSE convert_FirstMatchFrom(name, i + 1)

\* The country a node name is counted for in convert.js, 0 when it is
\* skipped: only the names matching ispRegex are skipped.
convert_CountryOf(name) ==
    IF RegExpTest(LANDING_REGEX, name) THEN 0 ELSE convert_FirstMatchFrom(name, 1)

\* convert_CountryOf, tabulated over the node names.
convert_CountryTest == [name \in NodeNames |-> convert_CountryOf(name)]

\* countryCounts[country] = (countryCounts[country] || 0) + 1 on the
\* insertion-ordered map countryCounts.
convert_Count(countryCounts, country) ==
    IF \E k \in 1..Len(countryCounts) : countryCounts[k].country = country
    THEN [k \in 1..Len(countryCounts) |->
            IF countryCounts[k].country = country
            THEN [country |-> country, count |-> countryCounts[k].count + 1]
            ELSE countryCounts[k]]
    ELSE Append(countryCounts, [country |-> country, count |-> 1])

RECURSIVE convert_CountFrom(_, _)
convert_CountFrom(proxies, countryCounts) ==
    IF proxies = <<>>
    THEN countryCounts
    ELSE LET c == convert_CountryTest[Head(proxies).name]
         IN  convert_CountFrom(Tail(proxies),
                               IF c = 0 THEN countryCounts
                               ELSE convert_Count(countryCounts,
                                                  convert_compiledRegex[c].country))

convert_parseCountries(cfg) == convert_CountFrom(ProxiesOf(cfg), <<>>)

convert_buildBaseLists(landing, countryInfo) ==
    LET filtered == SelectSeq(countryInfo, LAMBDA item : item.count > 2)
        countryGroupNames == [k \in 1..Len(filtered) |-> filtered[k].country \o <<"u8282","u70B9">>]
        selectName == <<"u9009","u62E9","u8282","u70B9">>
    IN  [ countryGroupNames |-> countryGroupNames,
          defaultSelector |->
            <<<<"u6545","u969C","u8F6C","u79FB">>>> \o When(landing, <<"u843D","u5730","u8282","u70B9">>)
                \o countryGroupNames \o <<<<"u624B","u52A8","u9009","u62E9">>, BuiltinDirect>>,
          defaultProxies |->
            <<selectName>> \o countryGroupNames \o <<<<"u624B","u52A8","u9009","u62E9">>, <<"u76F4","u8FDE">>>>,
          defaultProxiesDirect |->
            <<<<"u76F4","u8FDE">>>> \o countryGroupNames \o <<selectName, <<"u624B","u52A8","u9009","u62E9">>>>,
          defaultFallback |->
            When(landing, <<"u843D","u5730","u8282","u70B9">>) \o countryGroupNames
                \o <<<<"u624B","u52A8","u9009","u62E9">>, BuiltinDirect>> ]

\* The index of a country in the table of convert.js, 0 when it has none.
convert_MetaIndex(country) ==
    IF \E i \in 1..Len(convert_countriesMeta) : convert_countriesMeta[i].key = country
    THEN CHOOSE i \in 1..Len(convert_countriesMeta) : convert_countriesMeta[i].key = country
    ELSE 0

RECURSIVE convert_buildCountryProxyGroups(_, _, _)
convert_buildCountryProxyGroups(countryList, landing, loadBalance) ==
    IF countryList = <<>>
    THEN <<>>
    ELSE LET country == Head(countryList)
             groupConfig ==
                [ name |-> country \o <<"u8282","u70B9">>,
                  include_all |-> TRUE,
                  filter |-> convert_countriesMeta[convert_MetaIndex(country)].pattern,
                  exclude_filter |-> IF landing
                                     THEN JoinPatterns(LANDING_PATTERN, baseExcludeFilter)
                                     ELSE baseExcludeFilter,
                  type |-> IF loadBalance THEN "load-balance" ELSE "url-test" ]
         IN  (IF convert_MetaIndex(country) = 0
              THEN <<>>
              ELSE <<IF ~loadBalance THEN CountryHealthCheck @@ groupConfig ELSE groupConfig>>)
             \o convert_buildCountryProxyGroups(Tail(countryList), landing, loadBalance)

convert_buildProxyGroups(landing, countryProxyGroups, lists) ==
    LET frontProxy ==
            SelectSeq(lists.defaultSelector,
                      LAMBDA name : name # <<"u843D","u5730","u8282","u70B9">> /\ name # <<"u6545","u969C","u8F6C","u79FB">>)
    IN  Flat(<<
          <<SelectGroup(<<"u9009","u62E9","u8282","u70B9">>, lists.defaultSelector)>>,
          <<[name |-> <<"u624B","u52A8","u9009","u62E9">>, include_all |-> TRUE, type |-> "select"]>>,
          When(landing,
               [ name |-> <<"u524D","u7F6E","u4EE3","u7406">>, type |-> "select", include_all |-> TRUE,
                 exclude_filter |-> LANDING_PATTERN, proxies |-> frontProxy ]),
          When(landing,
               [ name |-> <<"u843D","u5730","u8282","u70B9">>, type |-> "select", include_all |-> TRUE,
                 filter |-> LANDING_PATTERN ]),
          <<[ name |-> <<"u6545","u969C","u8F6C","u79FB">>, type |-> "fallback", url |-> ProbeUrl,
              proxies |-> lists.defaultFallback, interval |-> 180, tolerance |-> 20,
              lazy |-> FALSE ]>>,
          <<SelectGroup(<<"A","I">>, lists.defaultProxies)>>,
          <<SelectGroup(<<"Y","o","u","T","u","b","e">>, lists.defaultProxies)>>,
          <<SelectGroup(<<"S","p","o","t","i","f","y">>, lists.defaultProxies)>>,
          <<SelectGroup(<<"G","i","t","H","u","b">>, lists.defaultProxies)>>,
          <<SelectGroup(<<"u76F4","u8FDE">>, <<BuiltinDirect, <<"u9009","u62E9","u8282","u70B9">>>>)>>,
          countryProxyGroups >>)

\* The catch-all group convert.js appends.
convert_GlobalGroup(proxyGroups) ==
    [ name |-> <<"G","L","O","B","A","L">>, include_all |-> TRUE, type |-> "select",
      proxies |-> [k \in 1..Len(proxyGroups) |-> proxyGroups[k].name] ]

\* main of convert.js.  hasLowCost iterates config["proxies"] as it is, so a
\* configuration without proxies makes main throw a TypeError.
convert_main(cfg, fl) ==
    IF "proxies" \notin DOMAIN cfg
    THEN [threw |-> "TypeError"]
    ELSE LET countryInfo == convert_parseCountries(cfg)
             lists == convert_buildBaseLists(fl.landing, countryInfo)
             countryList == stripNodeSuffix(lists.countryGroupNames)
             countryProxyGroups ==
                convert_buildCountryProxyGroups(countryList, fl.landing, fl.loadBalance)
             proxyGroups == convert_buildProxyGroups(fl.landing, countryProxyGroups, lists)
         IN  [ proxies |-> cfg.proxies,
               proxy_groups |-> Append(proxyGroups, convert_GlobalGroup(proxyGroups)) ]

\* ------------------------------------------------------------------ inputs

\* All sequences over S of length at most n.
SeqsUpTo(S, n) == UNION {[1..k -> S] : k \in 0..n}

\* Node names of the re-invocation specification.
RerunNodeNames == { <<"H","K","1">>, <<"H","K","0",".","3">>, <<"u843D","u5730","U","S">> }

Proxies(names) == {[name |-> n] : n \in names}

\* A configuration that holds no proxies key.
ConfigWithoutProxies == [port |-> 7890]

\* The arguments main is invoked with.
Configs ==
    {[proxies |-> ps] : ps \in SeqsUpTo(Proxies(NodeNames), MaxNodes)}
        \cup {ConfigWithoutProxies}

RerunConfigs ==
    {[proxies |-> ps] : ps \in SeqsUpTo(Proxies(RerunNodeNames), MaxRerunNodes)}
        \cup {ConfigWithoutProxies}

\* The decimal string of an integer between -9 and 9.
DecimalString(n) ==
    LET digit(d) == CASE d = 0 -> "0" [] d = 1 -> "1" [] d = 2 -> "2" [] d = 3 -> "3"
                      [] d = 4 -> "4" [] d = 5 -> "5" [] d = 6 -> "6" [] d = 7 -> "7"
                      [] d = 8 -> "8" [] d = 9 -> "9"
    IN  IF n < 0 THEN <<"-", digit(0 - n)>> ELSE <<digit(n)>>

\* The threshold argument: not passed, or a decimal string.
ThresholdArgs ==
    {undefined} \cup {[t |-> "string", s |-> DecimalString(n)] : n \in {-1} \cup 1..MaxNodes}

\* The $arguments objects: each of four switches passed as "true" or not
\* passed, and the threshold.
ScriptArguments ==
    { [k \in ks \cup (IF th = undefined THEN {} ELSE {"threshold"}) |->
            IF k = "threshold" THEN th ELSE [t |-> "string", s |-> <<"t","r","u","e">>]] :
        ks \in SUBSET {"loadbalance", "landing", "regex", "quic"}, th \in ThresholdArgs }

\* Strings that parseInt reads no integer from.
UnparseableThresholdStrings == { <<>>, <<" ">>, <<"a","b","c">>, <<"x","2">>, <<"-">>, <<"t","r","u","e">>, <<".","5">> }

\* Strings that parseInt reads an integer from, a prefix included.
ParseableThresholdStrings ==
    { <<"0">>, <<"2">>, <<"-","1">>, <<"+","3">>, <<" ","4">>, <<"0","0","7">>, <<"2","x">>, <<"1",".","5">>, <<"-","0">> }

\* Values the threshold argument may have: not passed, null, a boolean, an
\* integer, or a string.
ThresholdValues ==
    {undefined, null}
        \cup {[t |-> "boolean", b |-> b] : b \in BOOLEAN}
        \cup {[t |-> "number", n |-> n] : n \in {-2, 0, 5}}
        \cup {[t |-> "string", s |-> s] :
                s \in UnparseableThresholdStrings \cup ParseableThresholdStrings}

\* Values a switch may have: not passed, a boolean, or a string.
SwitchValues ==
    {undefined}
        \cup {[t |-> "boolean", b |-> b] : b \in BOOLEAN}
        \cup {[t |-> "string", s |-> s] : s \in {<<"t","r","u","e">>, <<"T","R","U","E">>, <<"1">>, <<"f","a","l","s","e">>, <<"0">>}}

\* The $arguments objects of flag resolution: the threshold and the quic
\* switch, each passed with one of its values or not passed.
FlagArguments ==
    { [k \in (IF th = undefined THEN {} ELSE {"threshold"})
                \cup (IF sw = undefined THEN {} ELSE {"quic"}) |->
            IF k = "threshold" THEN th ELSE sw] :
        th \in ThresholdValues, sw \in SwitchValues }

\* The $arguments objects of convert.js: the two switches that its groups
\* depend on.
ConvertScriptArguments ==
    { [k \in ks |-> [t |-> "string", s |-> <<"t","r","u","e">>]] : ks \in SUBSET {"loadbalance", "landing"} }

\* ----------------------------------------------------------- state machine

\* No invocation of main has returned since the last call.
NoResult == [pending |-> TRUE]

\* The script is loaded, its flags resolved from $arguments once, and main is
\* called with a configuration.
InitWith(configs) ==
    /\ rawArgs \in ScriptArguments
    /\ flags = buildFeatureFlags(rawArgs)
    /\ baseRules = InitialBaseRules
    /\ config \in configs
    /\ result = NoResult
    /\ first = NoResult

Init == InitWith(Configs)

\* The pending invocation main(config) runs and returns.
Main ==
    LET out == main(config, flags, baseRules)
    IN  /\ result = NoResult
        /\ result' = out.resultConfig
        /\ baseRules' = out.baseRules
        /\ UNCHANGED <<rawArgs, flags, config, first>>

\* main is called again, with any configuration (the observer's note of a
\* call with another argument is kept with it).
Call(cfg) ==
    /\ result # NoResult
    /\ config' = cfg
    /\ result' = NoResult
    /\ first' = IF first # NoResult /\ cfg # first.config
                THEN [first EXCEPT !.between = TRUE]
                ELSE first
    /\ UNCHANGED <<rawArgs, flags, baseRules>>

\* An observer notes the argument and the result of the invocation that has
\* just returned, once; from then on it also notes whether main has been called
\* with another argument.
Observe ==
    /\ result # NoResult
    /\ first = NoResult
    /\ first' = [config |-> config, result |-> result, between |-> FALSE]
    /\ UNCHANGED <<rawArgs, flags, baseRules, config, result>>

Next == Main

Spec == Init /\ [][Next]_vars

InitRerun == InitWith(RerunConfigs)

NextRerun == Main \/ (\E cfg \in RerunConfigs : Call(cfg)) \/ Observe

SpecRerun == InitRerun /\ [][NextRerun]_vars

\* convert.js is loaded and its main is called with a configuration.
InitConvert ==
    /\ rawArgs \in ConvertScriptArguments
    /\ flags = convert_flags(rawArgs)
    /\ baseRules = <<>>
    /\ config \in Configs
    /\ result = NoResult
    /\ first = NoResult

\* The pending invocation of convert.js's main runs and returns or throws.
ConvertMain ==
    /\ result = NoResult
    /\ result' = convert_main(config, flags)
    /\ UNCHANGED <<rawArgs, flags, baseRules, config, first>>

NextConvert == ConvertMain

SpecConvert == InitConvert /\ [][NextConvert]_vars

\* The script is being loaded: $arguments is there, the flags are not
\* resolved yet.
InitFlags ==
    /\ rawArgs \in FlagArguments
    /\ flags = NoResult
    /\ baseRules = InitialBaseRules
    /\ config = [proxies |-> <<>>]
    /\ result = NoResult
    /\ first = NoResult

\* The flags are resolved from $arguments.
ResolveFlags ==
    /\ flags = NoResult
    /\ flags' = buildFeatureFlags(rawArgs)
    /\ UNCHANGED <<rawArgs, baseRules, config, result, first>>

NextFlags == ResolveFlags

SpecFlags == InitFlags /\ [][NextFlags]_vars


\* --------------------------------------------------------------- properties

\* main has returned a configuration.
Returned == result # NoResult /\ "proxy_groups" \in DOMAIN result

\* The names of the nodes handed to main, in order.
InputNames == [k \in 1..Len(ProxiesOf(config)) |-> ProxiesOf(config)[k].name]

\* How often x occurs in a sequence.
Occurrences(seq, x) == Cardinality({k \in 1..Len(seq) : seq[k] = x})

\* The elements of a sequence.
Range(seq) == {seq[k] : k \in 1..Len(seq)}

\* The countries of the table whose pattern, compiled as parseCountries
\* compiles it, matches a node name.
MatchingCountries ==
    [name \in NodeNames |->
        {i \in 1..Len(countriesMeta) :
            RegExpTest(RegExpOf(countriesMeta[i].pattern, FALSE), name)}]

\* The number of nodes classified into each country of the table, by index.
BucketSizes ==
    LET countryInfo == parseCountries(config)
    IN  [i \in 1..Len(countriesMeta) |-> Len(NodesByCountry(countryInfo, countriesMeta[i].key))]

\* The name of the group of the i-th country of the table.
GroupNameOf(i) == countriesMeta[i].key \o NODE_SUFFIX

\* The returned sequence has a group of that name.
HasGroup(name) == \E k \in 1..Len(result.proxy_groups) : result.proxy_groups[k].name = name

\* The names that occur in some candidate list of the returned sequence.
Candidates ==
    UNION { IF "proxies" \in DOMAIN result.proxy_groups[k]
            THEN Range(result.proxy_groups[k].proxies)
            ELSE {} : k \in 1..Len(result.proxy_groups) }

\* The candidate list of the Selector group (the first group).
SelectorCandidates == result.proxy_groups[1].proxies

\* The table indices of the country groups of the returned sequence, in the
\* order of the sequence.
EmittedCountries ==
    LET indices == [k \in 1..Len(result.proxy_groups) |->
                        MetaIndex(StripSuffix(result.proxy_groups[k].name))]
    IN  SelectSeq(indices, LAMBDA i : i # 0)

\* C1: for every node list and flag combination the country buckets of
\* parseCountries are pairwise disjoint, a node is placed in at most one
\* bucket, and no bucket holds a name matching the landing or the low-cost
\* pattern, whether or not the landing flag is on.
C1_BucketsPartition ==
    LET countryInfo == parseCountries(config)
    IN  Returned =>
        /\ \A a, b \in 1..Len(countryInfo) :
               a # b => Range(countryInfo[a].nodes) \cap Range(countryInfo[b].nodes) = {}
        /\ \A a \in 1..Len(countryInfo) :
               \A name \in Range(countryInfo[a].nodes) :
                   /\ Occurrences(countryInfo[a].nodes, name) <= Occurrences(InputNames, name)
                   /\ ~LandingTest[name]
                   /\ ~LowCostTest[name]

\* C1 witness: main returned for a list with a landing node whose name also
\* matches a country, and some bucket is not empty.
C1_Witness ==
    /\ Returned
    /\ \E name \in Range(InputNames) :
           LandingTest[name] /\ MatchingCountries[name] # {}
    /\ parseCountries(config) # <<>>

\* C2: a node that is neither landing nor low-cost and matches the patterns
\* of two or more countries is in the bucket of the earliest declared of
\* them and in no other bucket, wherever it stands in the input.
C2_FirstMatchWins ==
    LET countryInfo == parseCountries(config)
    IN  Returned =>
        \A name \in Range(InputNames) :
            (/\ ~LandingTest[name]
             /\ ~LowCostTest[name]
             /\ Cardinality(MatchingCountries[name]) >= 2)
            => LET earliest == CHOOSE i \in MatchingCountries[name] :
                                   \A j \in MatchingCountries[name] : i <= j
               IN  \A c \in 1..Len(countriesMeta) :
                       Includes(NodesByCountry(countryInfo, countriesMeta[c].key), name)
                           <=> c = earliest

\* C2 witness: main returned for a list whose second node matches two
\* countries and is preceded by another node.
C2_Witness ==
    /\ Returned
    /\ Len(InputNames) = 2
    /\ InputNames[1] # InputNames[2]
    /\ Cardinality(MatchingCountries[InputNames[2]]) >= 2
    /\ ~LandingTest[InputNames[2]]
    /\ ~LowCostTest[InputNames[2]]

\* C3 as stated: the group of a country is in the returned sequence iff the
\* size of the country's bucket is >= countryThreshold, for every threshold.
C3_ThresholdIffAsStated ==
    Returned =>
        LET size == BucketSizes
        IN  \A i \in 1..Len(countriesMeta) :
                HasGroup(GroupNameOf(i)) <=> size[i] >= flags.countryThreshold

\* C3 amended: the group of a country is in the returned sequence, and its
\* name in the Selector's candidate list, iff the country's bucket is not
\* empty and its size is >= countryThreshold.
C3_ThresholdIffNonEmpty ==
    Returned =>
        LET size == BucketSizes
        IN  \A i \in 1..Len(countriesMeta) :
                LET emitted == size[i] >= 1 /\ size[i] >= flags.countryThreshold
                IN  /\ HasGroup(GroupNameOf(i)) <=> emitted
                    /\ Includes(SelectorCandidates, GroupNameOf(i)) <=> emitted

\* C3 witness: main returned under threshold 2 with a country of exactly two
\* nodes, whose group is emitted, and a country of no node, which has none.
C3_Witness ==
    /\ Returned
    /\ flags.countryThreshold = 2
    /\ \E i, j \in 1..Len(countriesMeta) :
           /\ BucketSizes[i] = 2
           /\ HasGroup(GroupNameOf(i))
           /\ BucketSizes[j] = 0
           /\ ~HasGroup(GroupNameOf(j))

\* Country i of the table is due before country j: lower weight first, a
\* weighted country before an unweighted one, declaration order otherwise.
DueBefore(i, j) ==
    LET wi == WeightOf(countriesMeta[i].key)
        wj == WeightOf(countriesMeta[j].key)
    IN  IF wi.inf /\ wj.inf THEN i < j
        ELSE IF wi.inf THEN FALSE
        ELSE IF wj.inf THEN TRUE
        ELSE wi.n < wj.n \/ (wi.n = wj.n /\ i < j)

\* C4: the country groups of the returned sequence are in ascending weight
\* order, unweighted countries after the weighted ones, and countries of
\* equal or unset weight in declaration order, for every order of the input.
C4_WeightThenDeclarationOrder ==
    Returned =>
        \A a, b \in 1..Len(EmittedCountries) :
            a < b => DueBefore(EmittedCountries[a], EmittedCountries[b])

\* C5: no group of the returned sequence has its own name in its own
\* candidate list, whatever the node names are.
C5_NoSelfCandidate ==
    Returned =>
        \A k \in 1..Len(result.proxy_groups) :
            "proxies" \in DOMAIN result.proxy_groups[k]
                => ~Includes(result.proxy_groups[k].proxies, result.proxy_groups[k].name)

\* C6: the last group of the returned sequence is GLOBAL and its candidate
\* list is the list of the names of the groups before it, in order, with no
\* name missing, added or repeated.
C6_GlobalListsAllBefore ==
    Returned =>
        LET groups == result.proxy_groups
            n == Len(groups)
        IN  /\ n >= 1
            /\ groups[n].name = GlobalName
            /\ Len(groups[n].proxies) = n - 1
            /\ \A k \in 1..(n - 1) : groups[n].proxies[k] = groups[k].name
            /\ Cardinality(Range(groups[n].proxies)) = n - 1

\* C6 witness: main returned a sequence with country groups and the landing
\* groups before GLOBAL.
C6_Witness ==
    /\ Returned
    /\ flags.landing
    /\ Len(EmittedCountries) >= 2

\* C7: an invocation of main with the node list and flags of an earlier
\* invocation returns what the earlier one returned, also when invocations
\* with other node lists took place in between.
C7_SameInputSameOutput ==
    (first # NoResult /\ result # NoResult /\ config = first.config)
        => result = first.result

\* C7 witness: main returned again for the first node list after an
\* invocation with another list, with the QUIC rule among the rules.
C7_Witness ==
    /\ first # NoResult
    /\ result # NoResult
    /\ first.between
    /\ config = first.config
    /\ ~flags.quicEnabled
    /\ parseCountries(config) # <<>>

\* C8: no two groups of the returned sequence have the same name.
C8_GroupNamesUnique ==
    Returned =>
        Cardinality({result.proxy_groups[k].name : k \in 1..Len(result.proxy_groups)})
            = Len(result.proxy_groups)

\* C8 witness: main returned a sequence with the low-cost group and the
\* group of a country that two nodes were classified into.
C8_Witness ==
    /\ Returned
    /\ HasGroup(PROXY_GROUPS.LOW_COST)
    /\ \E i \in 1..Len(countriesMeta) :
           BucketSizes[i] = 2 /\ HasGroup(GroupNameOf(i))

\* C9: for every flag combination and threshold, zero and negative ones
\* included, a country with no node classified into it has no group in the
\* returned sequence and its group name is in no candidate list.
C9_AbsentCountryNoGroup ==
    Returned =>
        LET size == BucketSizes
            candidates == Candidates
        IN  \A i \in 1..Len(countriesMeta) :
                size[i] = 0 => ~HasGroup(GroupNameOf(i)) /\ GroupNameOf(i) \notin candidates

\* C9 witness: main returned under a negative threshold for a list with a
\* node of one country and none of another.
C9_Witness ==
    /\ Returned
    /\ flags.countryThreshold < 0
    /\ \E i, j \in 1..Len(countriesMeta) :
           /\ BucketSizes[i] >= 1
           /\ HasGroup(GroupNameOf(i))
           /\ BucketSizes[j] = 0

\* The number of nodes convert.js counts for a country of its table.
convert_CountOf(country) ==
    LET countryInfo == convert_parseCountries(config)
    IN  IF \E k \in 1..Len(countryInfo) : countryInfo[k].country = country
        THEN countryInfo[CHOOSE k \in 1..Len(countryInfo) :
                            countryInfo[k].country = country].count
        ELSE 0

\* C10: convert.js emits the group of every country of its table that at
\* least one non-landing node is classified into, a single node included,
\* and lists the group's name in the selector list.
C10_ConvertPresentCountryHasGroup ==
    Returned =>
        \A i \in 1..Len(convert_countriesMeta) :
            convert_CountOf(convert_countriesMeta[i].key) >= 1
                => /\ HasGroup(convert_countriesMeta[i].key \o NODE_SUFFIX)
                   /\ Includes(SelectorCandidates, convert_countriesMeta[i].key \o NODE_SUFFIX)

\* C11: the rule rejecting UDP port 443 is the first rule of the returned
\* rule list when the quic argument is true, and is not in the list when the
\* argument is false or absent (the flag then resolves to false).
C11_QuicArgumentBlocksQuic ==
    Returned =>
        /\ "quic" \notin DOMAIN rawArgs => ~flags.quicEnabled
        /\ flags.quicEnabled =>
               result.rules # <<>> /\ result.rules[1] = QuicRejectRule
        /\ ~flags.quicEnabled => ~Includes(result.rules, QuicRejectRule)

\* A configuration whose node list is empty.
EmptyConfig == [proxies |-> <<>>]

\* C12: for a configuration without a node list main returns the group
\* sequence it returns for an empty node list: no country group, no
\* enumerated landing or low-cost member, and GLOBAL last.
C12_AbsentProxiesAsEmpty ==
    (Returned /\ "proxies" \notin DOMAIN config) =>
        LET groups == result.proxy_groups
        IN  /\ groups = main(EmptyConfig, flags, InitialBaseRules).resultConfig.proxy_groups
            /\ EmittedCountries = <<>>
            /\ \A k \in 1..Len(groups) :
                   (/\ groups[k].name \in {PROXY_GROUPS.LANDING, PROXY_GROUPS.LOW_COST}
                    /\ "proxies" \in DOMAIN groups[k])
                   => groups[k].proxies = <<>>
            /\ groups[Len(groups)].name = GlobalName

\* C12 witness: main returned for a configuration without a node list, with
\* the landing group enumerated.
C12_Witness ==
    /\ Returned
    /\ "proxies" \notin DOMAIN config
    /\ flags.landing
    /\ ~flags.regexFilter
    /\ HasGroup(PROXY_GROUPS.LANDING)


\* The flags are resolved.
Resolved == flags # NoResult

\* args.threshold as passed to the script.
ThresholdArgument == ArgOf(rawArgs, "threshold")

\* C13: an absent threshold argument, and one that no integer can be read
\* from (null, a boolean, a string without a leading integer), resolve to
\* countryThreshold 0; for every value flag resolution yields an integer.
C13_UnparseableThresholdIsZero ==
    Resolved =>
        /\ flags.countryThreshold \in Int
        /\ (\/ ThresholdArgument.t \in {"undefined", "null", "boolean"}
            \/ /\ ThresholdArgument.t = "string"
               /\ ThresholdArgument.s \in UnparseableThresholdStrings)
           => flags.countryThreshold = 0

\* C13 witness: the flags are resolved from a threshold argument that is a
\* string without an integer.
C13_Witness ==
    /\ Resolved
    /\ ThresholdArgument.t = "string"
    /\ ThresholdArgument.s = <<"a","b","c">>
    /\ flags.countryThreshold = 0

\* C14: for every value of the threshold argument the resolved
\* countryThreshold is an integer >= 0.
C14_ThresholdNonNegative ==
    Resolved => flags.countryThreshold \in Int /\ flags.countryThreshold >= 0

\* A node name that matches neither the landing, nor the low-cost, nor any
\* country pattern.
Unmatched(name) ==
    ~LandingTest[name] /\ ~LowCostTest[name] /\ MatchingCountries[name] = {}

\* A group of the returned sequence is a country group, the landing group or
\* the low-cost group.
IsClassGroup(group) ==
    \/ group.name \in {PROXY_GROUPS.LANDING, PROXY_GROUPS.LOW_COST}
    \/ MetaIndex(StripSuffix(group.name)) # 0

\* A group lists a node name: in its candidate list, or by its filter.
Lists(group, name) ==
    \/ "proxies" \in DOMAIN group /\ Includes(group.proxies, name)
    \/ /\ "filter" \in DOMAIN group
       /\ RegExpTest(RegExpOf(group.filter, group.filter.inlineI), name)

\* C15: the proxies of the output are the input nodes, in input order, none
\* added, removed or modified; a node that matches no pattern is passed
\* through and listed in no country, landing or low-cost group.
C15_ProxiesPassThrough ==
    (Returned /\ "proxies" \in DOMAIN config) =>
        /\ "proxies" \in DOMAIN result
        /\ result.proxies = config.proxies
        /\ \A name \in Range(InputNames) :
               Unmatched(name) =>
                   \A k \in 1..Len(result.proxy_groups) :
                       IsClassGroup(result.proxy_groups[k])
                           => ~Lists(result.proxy_groups[k], name)

\* C15 witness: main returned, with the landing flag on, for a list of an
\* unmatched node after a node of a country.
C15_Witness ==
    /\ Returned
    /\ flags.landing
    /\ Len(InputNames) = 2
    /\ MatchingCountries[InputNames[1]] # {}
    /\ Unmatched(InputNames[2])
    /\ Len(EmittedCountries) >= 1

\* C16: a node whose name matches the landing pattern is never among the
\* low-cost names main computes, so the landing names and the low-cost names
\* of main are disjoint.
C16_LandingNeverLowCost ==
    Returned =>
        /\ \A name \in Range(InputNames) :
               LandingTest[name] => ~Includes(parseLowCost(config), name)
        /\ Range(IF flags.landing THEN parseLandingNodes(config) ELSE <<>>)
               \cap Range(parseLowCost(config)) = {}

\* The country group names main surfaces: past the threshold, sorted.
SurfacedGroupNames == getCountryGroupNames(parseCountries(config), flags.countryThreshold)

\* The Landing entry of a candidate list, present iff the landing flag is on.
LandingEntry == IF flags.landing THEN <<PROXY_GROUPS.LANDING>> ELSE <<>>

\* The LowCost entry of a candidate list, present iff some input node is
\* low-cost or pattern mode is on.
LowCostEntry ==
    IF (\E name \in Range(InputNames) : LowCostTest[name]) \/ flags.regexFilter
    THEN <<PROXY_GROUPS.LOW_COST>>
    ELSE <<>>

\* C17: the Selector's candidate list is [Fallback, Landing?, the surfaced
\* country group names in sorted order, LowCost?, Manual, DIRECT], Landing
\* present iff the landing flag is on, LowCost iff a low-cost node exists
\* or pattern mode is on.
C17_SelectorList ==
    Returned =>
        /\ result.proxy_groups[1].name = PROXY_GROUPS.SELECT
        /\ SelectorCandidates =
               <<PROXY_GROUPS.FALLBACK>> \o LandingEntry \o SurfacedGroupNames
                   \o LowCostEntry \o <<PROXY_GROUPS.MANUAL, BuiltinDirect>>

\* C17 witness: main returned in pattern mode, landing on, for a list with a
\* country node and no low-cost node.
C17_Witness ==
    /\ Returned
    /\ flags.regexFilter
    /\ flags.landing
    /\ SurfacedGroupNames # <<>>
    /\ \A name \in Range(InputNames) : ~LowCostTest[name]

\* The Fallback group of the returned sequence.
FallbackGroup ==
    result.proxy_groups[CHOOSE k \in 1..Len(result.proxy_groups) :
                            result.proxy_groups[k].name = PROXY_GROUPS.FALLBACK]

\* C18: the Fallback group's candidate list never holds the Selector's name
\* and is the Selector's list without the Fallback name: [Landing?, country
\* groups, LowCost?, Manual, DIRECT].
C18_FallbackList ==
    Returned =>
        /\ HasGroup(PROXY_GROUPS.FALLBACK)
        /\ ~Includes(FallbackGroup.proxies, PROXY_GROUPS.SELECT)
        /\ FallbackGroup.proxies =
               SelectSeq(SelectorCandidates, LAMBDA name : name # PROXY_GROUPS.FALLBACK)
        /\ FallbackGroup.proxies =
               LandingEntry \o SurfacedGroupNames \o LowCostEntry
                   \o <<PROXY_GROUPS.MANUAL, BuiltinDirect>>

\* C18 witness: main returned with the landing flag on for a list with a
\* low-cost node and a country node.
C18_Witness ==
    /\ Returned
    /\ flags.landing
    /\ SurfacedGroupNames # <<>>
    /\ \E name \in Range(InputNames) : LowCostTest[name]

\* The country groups of the returned sequence, in its order.
CountryGroups ==
    SelectSeq(result.proxy_groups, LAMBDA group : MetaIndex(StripSuffix(group.name)) # 0)

\* C19: there is exactly one country group per surfaced country, in the
\* order of the surfaced list; each is of type load-balance when loadBalance
\* is set and url-test otherwise; a url-test group carries the health check
\* (probe URL, interval 60, tolerance 20, lazy false), a load-balance group
\* none of these fields.
C19_CountryGroupTypes ==
    Returned =>
        LET groups == CountryGroups
        IN  /\ [k \in 1..Len(groups) |-> groups[k].name] = SurfacedGroupNames
            /\ \A k \in 1..Len(groups) :
                   IF flags.loadBalance
                   THEN /\ groups[k].type = "load-balance"
                        /\ DOMAIN groups[k] \cap {"url", "interval", "tolerance", "lazy"} = {}
                   ELSE /\ groups[k].type = "url-test"
                        /\ {"url", "interval", "tolerance", "lazy"} \subseteq DOMAIN groups[k]
                        /\ groups[k].url = "https://cp.cloudflare.com/generate_204"
                        /\ groups[k].interval = 60
                        /\ groups[k].tolerance = 20
                        /\ groups[k].lazy = FALSE

\* C19 witness: main returned two country groups of type load-balance.
C19_Witness ==
    /\ Returned
    /\ flags.loadBalance
    /\ Len(CountryGroups) = 2

\* The country of the table a node name is due to, 0 for none: the earliest
\* declared country whose pattern matches, unless the name is a landing or a
\* low-cost one.
DueCountry(name) ==
    IF LandingTest[name] \/ LowCostTest[name] \/ MatchingCountries[name] = {}
    THEN 0
    ELSE CHOOSE i \in MatchingCountries[name] : \A j \in MatchingCountries[name] : i <= j

\* C20: in enumerated mode a country group's candidate list is the node
\* names of the country's bucket in input order, and it has no include-all,
\* filter or exclude-filter; in pattern mode it has include-all true and the
\* country's pattern as filter, and no candidate list.
C20_CountryGroupMembers ==
    Returned =>
        LET groups == CountryGroups
        IN  \A k \in 1..Len(groups) :
                LET i == MetaIndex(StripSuffix(groups[k].name))
                IN  IF flags.regexFilter
                    THEN /\ "proxies" \notin DOMAIN groups[k]
                         /\ {"include_all", "filter"} \subseteq DOMAIN groups[k]
                         /\ groups[k].include_all = TRUE
                         /\ groups[k].filter = countriesMeta[i].pattern
                    ELSE /\ DOMAIN groups[k] \cap {"include_all", "filter", "exclude_filter"} = {}
                         /\ "proxies" \in DOMAIN groups[k]
                         /\ groups[k].proxies =
                                SelectSeq(InputNames, LAMBDA name : DueCountry(name) = i)

\* C20 witness: main returned in enumerated mode a country group of two
\* different nodes.
C20_Witness ==
    /\ Returned
    /\ ~flags.regexFilter
    /\ \E k \in 1..Len(CountryGroups) :
           /\ Len(CountryGroups[k].proxies) = 2
           /\ CountryGroups[k].proxies[1] # CountryGroups[k].proxies[2]

\* The runtime's evaluation of a group's exclude-filter on a node name: the
\* pattern ignores case iff it starts with the inline flag (?i).
ExcludedAtRuntime(group, name) ==
    RegExpTest(RegExpOf(group.exclude_filter, group.exclude_filter.inlineI), name)

\* C21: in pattern mode, for both values of the landing flag, every input
\* node that parseCountries keeps out of the buckets because its name matches
\* the landing pattern or the low-cost pattern is rejected by the
\* exclude-filter of every country group.
C21_ExcludeFilterAsClassifier ==
    (Returned /\ flags.regexFilter) =>
        \A k \in 1..Len(CountryGroups) :
            \A name \in Range(InputNames) :
                (LandingTest[name] \/ LowCostTest[name])
                    => ExcludedAtRuntime(CountryGroups[k], name)

\* The group of the returned sequence with a given name.
GroupNamed(name) ==
    result.proxy_groups[CHOOSE k \in 1..Len(result.proxy_groups) :
                            result.proxy_groups[k].name = name]

\* C22: the Front-Proxy group and the Landing group are emitted iff the
\* landing flag is on; when emitted, the Front-Proxy candidate list is the
\* Selector's list without the Landing and Fallback names, the other names
\* in the Selector's order.
C22_FrontProxyList ==
    Returned =>
        /\ HasGroup(FrontProxyName) <=> flags.landing
        /\ HasGroup(PROXY_GROUPS.LANDING) <=> flags.landing
        /\ flags.landing =>
               LET frontProxies == GroupNamed(FrontProxyName).proxies
               IN  /\ frontProxies =
                          SelectSeq(SelectorCandidates,
                                    LAMBDA name : name \notin {PROXY_GROUPS.LANDING,
                                                               PROXY_GROUPS.FALLBACK})
                   /\ ~Includes(frontProxies, PROXY_GROUPS.LANDING)
                   /\ ~Includes(frontProxies, PROXY_GROUPS.FALLBACK)

\* C22 witness: main returned with the landing flag on and a Front-Proxy
\* list that names a country group.
C22_Witness ==
    /\ Returned
    /\ flags.landing
    /\ HasGroup(FrontProxyName)
    /\ Includes(SelectorCandidates, PROXY_GROUPS.LANDING)
    /\ \E k \in 1..Len(SurfacedGroupNames) :
           Includes(GroupNamed(FrontProxyName).proxies, SurfacedGroupNames[k])

\* The generic candidate list of the service groups.
GenericList ==
    <<PROXY_GROUPS.SELECT>> \o SurfacedGroupNames \o LowCostEntry
        \o <<PROXY_GROUPS.MANUAL, PROXY_GROUPS.DIRECT>>

\* The direct-preferring candidate list.
DirectFirstList ==
    <<PROXY_GROUPS.DIRECT>> \o SurfacedGroupNames \o LowCostEntry
        \o <<PROXY_GROUPS.SELECT, PROXY_GROUPS.MANUAL>>

\* The service groups bound to a base list whatever the countries are.
PlainServices ==
    { <<"A","I">>, <<"C","r","y","p","t","o">>, <<"G","o","o","g","l","e">>, <<"M","i","c","r","o","s","o","f","t">>, <<"Y","o","u","T","u","b","e">>, <<"N","e","t","f","l","i","x">>, <<"T","i","k","T","o","k">>,
      <<"S","p","o","t","i","f","y">>, <<"E","-","H","e","n","t","a","i">>, <<"T","e","l","e","g","r","a","m">>, <<"O","n","e","D","r","i","v","e">>, <<"P","i","k","P","a","k">>,
      <<"u9759","u6001","u8D44","u6E90">>, <<"S","S","H","(","2","2","u7AEF","u53E3",")">> }

\* Table indices of 台湾, 香港 and 美国.
TW == MetaIndex(<<"u53F0","u6E7E">>)

HK == MetaIndex(<<"u9999","u6E2F">>)

US == MetaIndex(<<"u7F8E","u56FD">>)

\* The candidate lists of the service groups, given for each country of the
\* table whether it counts as present.
ServiceListsFor(present) ==
    /\ GroupNamed(<<"B","i","l","i","b","i","l","i">>).proxies =
           IF present[TW] /\ present[HK]
           THEN <<PROXY_GROUPS.DIRECT, GroupNameOf(TW), GroupNameOf(HK)>>
           ELSE DirectFirstList
    /\ GroupNamed(<<"B","a","h","a","m","u","t">>).proxies =
           IF present[TW]
           THEN <<GroupNameOf(TW), PROXY_GROUPS.SELECT, PROXY_GROUPS.MANUAL, PROXY_GROUPS.DIRECT>>
           ELSE GenericList
    /\ GroupNamed(<<"T","r","u","t","h"," ","S","o","c","i","a","l">>).proxies =
           IF present[US]
           THEN <<GroupNameOf(US), PROXY_GROUPS.SELECT, PROXY_GROUPS.MANUAL>>
           ELSE GenericList
    /\ \A name \in PlainServices :
           HasGroup(name) /\ GroupNamed(name).proxies = GenericList

C24_DirectFirstKeepsGenericOrder ==
    (Returned /\ ~(HasGroup(GroupNameOf(TW)) /\ HasGroup(GroupNameOf(HK)))) =>
        GroupNamed(<<"B","i","l","i","b","i","l","i">>).proxies =
            <<PROXY_GROUPS.DIRECT>>
                \o SelectSeq(GroupNamed(<<"A","I">>).proxies,
                             LAMBDA name : name # PROXY_GROUPS.DIRECT)

\* The names of the groups of the returned sequence.
EmittedNames == {result.proxy_groups[k].name : k \in 1..Len(result.proxy_groups)}

\* The reference graph: for each emitted group but the catch-all one, the
\* emitted groups (but the catch-all one) named in its candidate list.
ReferenceGraph ==
    LET vertices == EmittedNames \ {GlobalName}
    IN  [name \in vertices |->
            IF "proxies" \in DOMAIN GroupNamed(name)
            THEN Range(GroupNamed(name).proxies) \cap vertices
            ELSE {}]

\* The vertices left of a graph after removing, as long as there is one, every
\* vertex with no edge to a vertex that is left: empty iff the graph has no
\* cycle.
RECURSIVE OnCycles(_, _)
OnCycles(graph, left) ==
    LET sinks == {v \in left : graph[v] \cap left = {}}
    IN  IF sinks = {} THEN left ELSE OnCycles(graph, left \ sinks)

\* No input node has the name of an emitted group.
NoNodeNamedAsGroup == Range(InputNames) \cap EmittedNames = {}

\* C25: when no input node has the name of an emitted group, the graph of
\* the emitted groups without the catch-all group, with an edge from a group
\* to each group in its candidate list, has no cycle, and no candidate list
\* names the catch-all group.
C25_NoReferenceCycle ==
    (Returned /\ NoNodeNamedAsGroup) =>
        /\ OnCycles(ReferenceGraph, DOMAIN ReferenceGraph) = {}
        /\ GlobalName \notin Candidates

\* C25 witness: main returned with the landing flag on, a country group and
\* the low-cost group for nodes not named as groups, with the chain service
\* group -> Direct group -> Selector -> Fallback -> Landing in the graph.
C25_Witness ==
    /\ Returned
    /\ NoNodeNamedAsGroup
    /\ InputNames # <<>>
    /\ flags.landing
    /\ SurfacedGroupNames # <<>>
    /\ PROXY_GROUPS.DIRECT \in ReferenceGraph[<<"A","I">>]
    /\ PROXY_GROUPS.SELECT \in ReferenceGraph[PROXY_GROUPS.DIRECT]
    /\ PROXY_GROUPS.FALLBACK \in ReferenceGraph[PROXY_GROUPS.SELECT]
    /\ PROXY_GROUPS.LANDING \in ReferenceGraph[PROXY_GROUPS.FALLBACK]

\* The built-in targets.
BuiltinTargets == {BuiltinDirect, <<"R","E","J","E","C","T">>, <<"R","E","J","E","C","T","-","D","R","O","P">>}

\* The names of the optional groups: Landing, low-cost and the country groups.
OptionalGroupNames ==
    {PROXY_GROUPS.LANDING, PROXY_GROUPS.LOW_COST}
        \cup {GroupNameOf(i) : i \in 1..Len(countriesMeta)}

\* C26: every entry of every candidate list of the returned sequence is the
\* name of a group of the sequence, a built-in target (DIRECT, REJECT,
\* REJECT-DROP) or the name of an input node; the Landing name, the low-cost
\* name and a country group name are in a candidate list only when the group
\* of that name is in the sequence.
C26_NoDanglingReference ==
    Returned =>
        LET candidates == Candidates
            emitted == EmittedNames
        IN  /\ candidates \subseteq emitted \cup BuiltinTargets \cup Range(InputNames)
            /\ candidates \cap OptionalGroupNames \subseteq emitted

\* C26 witness: main returned with the landing flag on, the low-cost group,
\* and Bilibili on its override list naming the 台湾 and 香港 groups.
C26_Witness ==
    /\ Returned
    /\ flags.landing
    /\ PROXY_GROUPS.LANDING \in Candidates
    /\ PROXY_GROUPS.LOW_COST \in Candidates
    /\ GroupNamed(<<"B","i","l","i","b","i","l","i">>).proxies =
           <<PROXY_GROUPS.DIRECT, GroupNameOf(TW), GroupNameOf(HK)>>

====
